---- MODULE Spec2Model ----
(***************************************************************************)
(* A model of subatomic-ng: the rpm_package table and its availability     *)
(* flag, the object storage facade (backend + cache directory), and the    *)
(* tag assembly engine.  Strings that the code formats or splits (ULIDs,   *)
(* object keys, paths) are built with \o and taken apart with Len and      *)
(* SubSeq, so that format!, split('/') and PathBuf::join are computed.     *)
(***************************************************************************)
EXTENDS Naturals, Integers, Sequences, FiniteSets, TLC

VARIABLES
    objectStoreType,  \* Config.object_store_type
    deleteWhenPrune,  \* Config.delete_when_prune
    backend,          \* the remote object store: key -> bytes
    files,            \* regular files under cache_dir: relative path -> bytes
    dirs,             \* directories under cache_dir (relative paths)
    rows,             \* table rpm_package: id -> Rpm
    tags,             \* table repo_tag: name -> Tag
    composes,         \* table repo_assemble: id -> TagCompose
    stagingDirs,      \* directories under repo_cache_dir: name -> contents
    exportLinks,      \* entries of export_dir: tag name -> symlink target
    nextUlid,         \* the ULID generator (time ordered)
    req,              \* the in-flight HTTP requests / API calls
    dependency,       \* an rpm::Dependency and the PkgDependency made from it
    history           \* a log: per object key the content last put under it,
                      \* per staging id the tag of the assemble that returned Ok

vars == <<objectStoreType, deleteWhenPrune, backend, files, dirs, rows, tags,
          composes, stagingDirs, exportLinks, nextUlid, req, dependency, history>>

----------------------------------------------------------------------------
(* Bounds of the model *)

\* number of concurrent callers
NReq == 2
\* number of ULIDs the generator hands out
MaxUlid == 3
\* number of object keys the storage calls are made on
MaxStoreKeys == 2
\* ULIDs drawn in all where tags are assembled: one per package ingested and
\* one per compose row
MaxAsmUlid == 4
\* number of packages in the tag that is assembled
MaxAsmPkgs == 2

----------------------------------------------------------------------------
(* Option values and small helpers *)

None == << >>
Some(x) == <<x>>
IsSome(o) == o # << >>
Unwrap(o) == o[1]

\* a function with one more (or one replaced) entry
Put(f, k, v) == (k :> v) @@ f
\* a function without an entry
Drop(f, k) == [x \in DOMAIN f \ {k} |-> f[x]]

Slash == "/"
\* the i-th character of a string
Char(s, i) == SubSeq(s, i, i)

SlashPositions(s) == {i \in 1..Len(s) : Char(s, i) = Slash}
\* the position of the last '/' of a string, 0 if it has none
RECURSIVE LastSlashFrom(_, _)
LastSlashFrom(s, i) ==
    IF i = 0 THEN 0 ELSE IF Char(s, i) = Slash THEN i ELSE LastSlashFrom(s, i - 1)
LastSlash(s) == LastSlashFrom(s, Len(s))

\* PathBuf::join of two relative paths
Join(a, b) == IF a = "" THEN b ELSE a \o Slash \o b

\* Path::parent of a relative path ("" is the root the path is relative to)
Parent(p) == LET i == LastSlash(p) IN IF i = 0 THEN "" ELSE SubSeq(p, 1, i - 1)

\* every directory create_dir_all(Parent(p)) makes sure exists
Ancestors(p) == {SubSeq(p, 1, i - 1) : i \in SlashPositions(p)}

Digits == <<"0", "1", "2", "3", "4", "5", "6", "7", "8", "9">>

\* the decimal text of a number, as Display for u32 prints it
RECURSIVE Decimal(_)
Decimal(n) == IF n < 10 THEN Digits[n + 1]
              ELSE Decimal(n \div 10) \o Digits[(n % 10) + 1]

\* the n-th ULID the generator returns: fixed width, ordered by time
Ulid(n) == Digits[((n \div 10) % 10) + 1] \o Digits[(n % 10) + 1]

----------------------------------------------------------------------------
(* RPM files: the bytes of a package stand for the metadata they parse to; *)
(* the epoch tag of a header is optional                                   *)

Rpm_a1x == [name |-> "a", epoch |-> None, version |-> "1", release |-> "1", arch |-> "x", parses |-> TRUE]
Rpm_a1y == [name |-> "a", epoch |-> None, version |-> "1", release |-> "1", arch |-> "y", parses |-> TRUE]
Rpm_b1x == [name |-> "b", epoch |-> Some(2), version |-> "1", release |-> "1", arch |-> "x", parses |-> TRUE]
\* bytes that rpm::Package::open rejects
Garbage == [name |-> "?", epoch |-> None, version |-> "", release |-> "", arch |-> "", parses |-> FALSE]
\* a file that was created or truncated and not written yet
EmptyFile == [name |-> "", epoch |-> None, version |-> "", release |-> "", arch |-> "", parses |-> FALSE]

RpmFiles == {Rpm_a1x, Rpm_a1y, Rpm_b1x}
TagNames == {"t", "u"}

\* no dependency is being converted
NoDependency == [dep |-> None, pkg |-> None]

\* Tag::new
Tag_new(name) == [id |-> name, name |-> name, comps_xml |-> None, signing_key |-> None]

\* the table repo_tag after the tags of a set of names were created
TagsOf(names) == [n \in names |-> Tag_new(n)]

\* what an ingest can bring, as <<bytes, tag>>: a.x into tag t, or a package
\* that differs from it in arch, in name or in tag
Ingested == {<<Rpm_a1x, "t">>, <<Rpm_a1y, "t">>, <<Rpm_b1x, "t">>, <<Rpm_a1x, "u">>}
\* the uploads a client can send: those, or bytes that are no RPM
Uploads == Ingested \cup {<<Garbage, "t">>}

----------------------------------------------------------------------------
(* db/rpm.rs: object keys *)

RPM_PREFIX == "rpm"

get_split_id_string(id) == Char(id, 1) \o Slash \o Char(id, 2) \o Slash \o id

get_rpm_path(name, epoch, version, release, arch) ==
    name \o "-" \o Decimal(epoch) \o ":" \o version \o "-" \o release
         \o "." \o arch \o ".rpm"

\* rpm.get_epoch().unwrap_or_default()
unwrap_or_default(epoch) == IF IsSome(epoch) THEN Unwrap(epoch) ELSE 0

\* keys that leave the id out
rpm_object_key_NoId(id, meta) ==
    LET rpm_path == get_rpm_path(meta.name, unwrap_or_default(meta.epoch), meta.version,
                                 meta.release, meta.arch)
    IN  <<RPM_PREFIX \o Slash \o rpm_path,
          RPM_PREFIX \o "/signed/" \o rpm_path>>

\* the pair (object_key, signed_key)
rpm_object_key(id, meta) ==
    LET id_string == get_split_id_string(id)
        rpm_path == get_rpm_path(meta.name, unwrap_or_default(meta.epoch), meta.version,
                                 meta.release, meta.arch)
    IN  <<RPM_PREFIX \o Slash \o id_string \o Slash \o rpm_path,
          RPM_PREFIX \o Slash \o id_string \o "/signed/" \o rpm_path>>

\* a header with the name, epoch, version, release and arch of a row
MetadataOf(row) == [row EXCEPT !.epoch = Some(row.epoch)]

\* Rpm::new: the record of a parsed package, not yet available
Rpm_new(id, meta, tag) ==
    [id |-> id, epoch |-> unwrap_or_default(meta.epoch), name |-> meta.name,
     version |-> meta.version,
     release |-> meta.release, arch |-> meta.arch,
     object_key |-> rpm_object_key(id, meta)[1],
     signed_object_key |-> None, tag |-> tag, available |-> FALSE]

----------------------------------------------------------------------------
(* The storage world an operation works on: what it reads and what it     *)
(* leaves behind.  Results are records [ok, w] (plus path / bytes).        *)

World == [backend |-> backend, files |-> files, dirs |-> dirs]

\* Path::exists
Exists(w, p) == p \in DOMAIN w.files \/ p \in w.dirs

\* tokio::fs::write: create or truncate, then write the bytes
fs_write(w, p, bytes) == [ok |-> TRUE, w |-> [w EXCEPT !.files = Put(@, p, bytes)]]

\* tokio::fs::create_dir_all
create_dir_all(w, d) ==
    [w EXCEPT !.dirs = @ \cup (IF d = "" THEN {} ELSE {d} \cup Ancestors(d))]

\* tokio::fs::copy: the destination is opened with truncation before
\* the source is read, so a copy of a file onto itself empties it
fs_copy(w, src, dst) ==
    IF src \notin DOMAIN w.files \/ Parent(dst) \notin w.dirs \cup {""}
    THEN [ok |-> FALSE, w |-> w]
    ELSE [ok |-> TRUE,
          w |-> [w EXCEPT !.files = Put(@, dst, IF src = dst THEN EmptyFile ELSE w.files[src])]]

\* tokio::fs::remove_file
fs_remove_file(w, p) ==
    IF p \notin DOMAIN w.files THEN [ok |-> FALSE, w |-> w]
    ELSE [ok |-> TRUE, w |-> [w EXCEPT !.files = Drop(@, p)]]

----------------------------------------------------------------------------
(* cache.rs *)

\* Config.cache_dir: every path of the model is relative to it
cache_dir == ""

\* Cache::get
Cache_get(w, key) ==
    LET path == Join(cache_dir, key)
    IN  IF Exists(w, path) THEN Some(path) ELSE None

\* a put that leaves its source where it is
Cache_put_KeepSource(w, key, path) ==
    LET dest == Join(cache_dir, key)
        w1 == create_dir_all(w, Parent(dest))
        c == fs_copy(w1, path, dest)
    IN  IF ~c.ok THEN [ok |-> FALSE, w |-> c.w, path |-> None]
        ELSE [ok |-> TRUE, w |-> c.w, path |-> Some(dest)]

\* Cache::put when tokio::fs::copy returns an I/O error (no space left, say):
\* the parents exist, the destination is left as it was or, once opened,
\* truncated, and the ? returns before remove_file
Cache_put_CopyFails(w, key, path, opened) ==
    LET dest == Join(cache_dir, key)
        w1 == create_dir_all(w, Parent(dest))
    IN  [ok |-> FALSE,
         w |-> IF opened /\ path \in DOMAIN w.files
               THEN [w1 EXCEPT !.files = Put(@, dest, EmptyFile)] ELSE w1,
         path |-> None]

\* Cache::put: create the parents, copy, then remove the source
Cache_put(w, key, path) ==
    LET dest == Join(cache_dir, key)
        w1 == create_dir_all(w, Parent(dest))
        c == fs_copy(w1, path, dest)
        r == fs_remove_file(c.w, path)
    IN  IF ~c.ok THEN [ok |-> FALSE, w |-> c.w, path |-> None]
        ELSE IF ~r.ok THEN [ok |-> FALSE, w |-> r.w, path |-> None]
        ELSE [ok |-> TRUE, w |-> r.w, path |-> Some(dest)]

\* read_dir(d) has no entry
IsEmptyDir(w, d) ==
    /\ \A f \in DOMAIN w.files : Parent(f) # d
    /\ \A e \in w.dirs : Parent(e) # d

\* the loop of Cache::remove: remove empty directories upwards, stop at cache_dir
RECURSIVE PruneParents(_, _)
PruneParents(w, dir) ==
    IF dir = cache_dir THEN w
    ELSE IF dir \notin w.dirs THEN w
    ELSE IF ~IsEmptyDir(w, dir) THEN w
    ELSE PruneParents([w EXCEPT !.dirs = @ \ {dir}], Parent(dir))

\* a remove that leaves the directories alone
Cache_remove_NoPrune(w, key) == fs_remove_file(w, Join(cache_dir, key))

\* Cache::remove
Cache_remove(w, key) ==
    LET path == Join(cache_dir, key)
        r == fs_remove_file(w, path)
    IN  IF ~r.ok THEN [ok |-> FALSE, w |-> w]
        ELSE [ok |-> TRUE, w |-> PruneParents(r.w, Parent(path))]

----------------------------------------------------------------------------
(* obj_store/mod.rs *)

ObjectStoreTypes == {"s3", "local", "cacheonly"}

\* StorageBackend::file_name: key.split('/').last()
file_name(key) == SubSeq(key, LastSlash(key) + 1, Len(key))

\* object_cache_dir(): returns CONFIG.cache_dir
object_cache_dir == cache_dir

\* CacheOnlyBackend: put succeeds and stores nothing, get fails NotFound
CacheOnly_put_file(w, key, path) == [ok |-> TRUE, w |-> w]
CacheOnly_get_object(w, key) == [ok |-> FALSE, w |-> w, path |-> None]

\* an upload that reports success and stores nothing
Store_put_file_Nothing(w, key, path) == [ok |-> path \in DOMAIN w.files, w |-> w]

\* impl StorageBackend for Arc<dyn ObjectStore> (the S3 and the local store)
Store_put_file(w, key, path) ==
    IF path \notin DOMAIN w.files THEN [ok |-> FALSE, w |-> w]
    ELSE [ok |-> TRUE, w |-> [w EXCEPT !.backend = Put(@, key, w.files[path])]]

Store_get_object(w, key) ==
    IF key \notin DOMAIN w.backend THEN [ok |-> FALSE, w |-> w, path |-> None]
    ELSE LET dest == Join(object_cache_dir, file_name(key))
         IN  [ok |-> TRUE, w |-> fs_write(w, dest, w.backend[key]).w, path |-> Some(dest)]

\* dyn StorageBackend dispatch on the configured variant
Backend_put_file(type, w, key, path) ==
    IF type = "cacheonly" THEN CacheOnly_put_file(w, key, path)
    ELSE Store_put_file(w, key, path)

Backend_get_object(type, w, key) ==
    IF type = "cacheonly" THEN CacheOnly_get_object(w, key)
    ELSE Store_get_object(w, key)

\* ObjectStorage::get with the cache never consulted
ObjectStorage_get_NoFastPath(type, w, key) ==
    LET g == Backend_get_object(type, w, key)
    IN  IF ~g.ok THEN [ok |-> FALSE, w |-> g.w, path |-> None]
        ELSE Cache_put(g.w, key, Unwrap(g.path))

\* ObjectStorage::get
ObjectStorage_get(type, w, key) ==
    LET hit == Cache_get(w, key)
        g == Backend_get_object(type, w, key)
        p == Cache_put(g.w, key, Unwrap(g.path))
    IN  IF IsSome(hit) THEN [ok |-> TRUE, w |-> w, path |-> hit]
        ELSE IF ~g.ok THEN [ok |-> FALSE, w |-> g.w, path |-> None]
        ELSE p

\* ObjectStorage::put that installs in the cache and skips the upload
ObjectStorage_put_NoUpload(type, w, key, path) == Cache_put(w, key, path)

\* ObjectStorage::put
ObjectStorage_put(type, w, key, path) ==
    LET b == Backend_put_file(type, w, key, path)
    IN  IF ~b.ok THEN [ok |-> FALSE, w |-> b.w, path |-> None]
        ELSE Cache_put(b.w, key, path)

\* ObjectStorage::refresh
ObjectStorage_refresh(type, w, key) ==
    LET r == Cache_remove(w, key)
    IN  IF ~r.ok THEN [ok |-> FALSE, w |-> r.w, path |-> None]
        ELSE ObjectStorage_get(type, r.w, key)

\* CacheOnlyBackend: delete fails NotFound, put_bytes stores nothing
CacheOnly_delete_object(w, key) == [ok |-> FALSE, w |-> w]
CacheOnly_put_bytes(w, key, bytes) == [ok |-> TRUE, w |-> w]

\* ObjectStore::delete: S3 answers a DELETE of a missing key with success, the
\* local file system store reports NotFound
Store_delete_object(type, w, key) ==
    IF key \notin DOMAIN w.backend
    THEN [ok |-> type = "s3", w |-> w]
    ELSE [ok |-> TRUE, w |-> [w EXCEPT !.backend = Drop(@, key)]]

Store_put_bytes(w, key, bytes) ==
    [ok |-> TRUE, w |-> [w EXCEPT !.backend = Put(@, key, bytes)]]

Backend_delete_object(type, w, key) ==
    IF type = "cacheonly" THEN CacheOnly_delete_object(w, key)
    ELSE Store_delete_object(type, w, key)

Backend_put_bytes(type, w, key, bytes) ==
    IF type = "cacheonly" THEN CacheOnly_put_bytes(w, key, bytes)
    ELSE Store_put_bytes(w, key, bytes)

\* ObjectStorage::remove that empties the cache before it asks the backend
ObjectStorage_remove_CacheFirst(type, w, key) ==
    LET c == Cache_remove(w, key)
        d == Backend_delete_object(type, c.w, key)
    IN  IF ~c.ok THEN [ok |-> FALSE, w |-> c.w, path |-> None]
        ELSE [ok |-> d.ok, w |-> d.w, path |-> None]

\* ObjectStorage::remove
ObjectStorage_remove(type, w, key) ==
    LET d == Backend_delete_object(type, w, key)
        c == Cache_remove(d.w, key)
    IN  IF ~d.ok THEN [ok |-> FALSE, w |-> d.w, path |-> None]
        ELSE [ok |-> c.ok, w |-> c.w, path |-> None]

\* ObjectStorage::put_bytes that answers from the cache without uploading
ObjectStorage_put_bytes_NoUpload(type, w, key, bytes) ==
    [ok |-> IsSome(Cache_get(w, key)), w |-> w, path |-> Cache_get(w, key)]

\* ObjectStorage::put_bytes
ObjectStorage_put_bytes(type, w, key, bytes) ==
    LET b == Backend_put_bytes(type, w, key, bytes)
        hit == Cache_get(b.w, key)
    IN  IF ~b.ok THEN [ok |-> FALSE, w |-> b.w, path |-> None]
        ELSE [ok |-> IsSome(hit), w |-> b.w, path |-> hit]

----------------------------------------------------------------------------
(* db/rpm.rs: the statements on table rpm_package *)

\* the first UPDATE with its WHERE clause forgetting the tag
UpdateUnavailableAnyTag(rs, name, arch, tag) ==
    [i \in DOMAIN rs |->
        IF rs[i].name = name /\ rs[i].arch = arch
        THEN [rs[i] EXCEPT !.available = FALSE] ELSE rs[i]]

\* UPDATE rpm_package SET available = false WHERE name = $name AND arch = $arch AND tag = $tag
UpdateUnavailableWhereGroup(rs, name, arch, tag) ==
    [i \in DOMAIN rs |->
        IF rs[i].name = name /\ rs[i].arch = arch /\ rs[i].tag = tag
        THEN [rs[i] EXCEPT !.available = FALSE] ELSE rs[i]]

\* the UPDATE without its WHERE clause
UpdateAvailableEveryRow(rs, id, v) == [i \in DOMAIN rs |-> [rs[i] EXCEPT !.available = v]]

\* UPDATE rpm_package SET available = <v> WHERE id = $id
UpdateAvailableWhereId(rs, id, v) ==
    [i \in DOMAIN rs |-> IF i = id THEN [rs[i] EXCEPT !.available = v] ELSE rs[i]]

\* the transaction without its first UPDATE
MarkAvailableTxnNoUnmark(rs, self) == UpdateAvailableWhereId(rs, self.id, TRUE)

\* the BEGIN; UPDATE; UPDATE; COMMIT; of Rpm::mark_available
MarkAvailableTxn(rs, self) ==
    UpdateAvailableWhereId(
        UpdateUnavailableWhereGroup(rs, self.name, self.arch, self.tag), self.id, TRUE)

\* DB.update((RPM_TABLE, id)).content(entry): replaces an existing row
UpdateContent(rs, id, entry) ==
    IF id \in DOMAIN rs THEN [rs EXCEPT ![id] = entry] ELSE rs

\* the entry Rpm::mark_available writes back: its own copy, available
MarkAvailableEntry(self) == [self EXCEPT !.available = TRUE]

\* DB.insert((RPM_TABLE, id)).content(self)
InsertRow(rs, self) == Put(rs, self.id, self)

\* two rows that the first UPDATE of Rpm::mark_available treats as one group
SameGroup(a, b) == a.name = b.name /\ a.arch = b.arch /\ a.tag = b.tag

\* Tag::get_available_rpms: SELECT * FROM rpm_package WHERE tag = $tag AND available = true
get_available_rpms(rs, tag) ==
    {i \in DOMAIN rs : rs[i].tag = tag /\ rs[i].available}

----------------------------------------------------------------------------
(* Callers.  Each caller runs one operation at a time; pc is the await    *)
(* point it is suspended at.  pre is the availability of every row when   *)
(* the call began (history, read by no step).                             *)

Reqs == 1..NReq

Idle == [op |-> "idle", pc |-> "idle", id |-> "", self |-> None, tag |-> "",
         filename |-> "", data |-> EmptyFile, prune |-> FALSE,
         key |-> "", path |-> None, pre |-> << >>, result |-> "none",
         pkgs |-> << >>, todo |-> {}, staging_id |-> "", appended |-> {},
         before |-> None, gpg |-> None]

\* the ids a request path can name
IdArgs == {Ulid(n) : n \in 1..MaxUlid}
\* the file names a multipart upload can carry
Filenames == {"f"}

Availability == [i \in DOMAIN rows |-> rows[i].available]

InFlight(r) == req[r].op # "idle" /\ req[r].pc # "done"
\* no call is running and every response has been sent
Quiet == \A r \in Reqs : req[r].op = "idle"

\* ULIDs still to be drawn by uploads that have not parsed their file yet
PendingUlids == Cardinality({r \in Reqs : req[r].op = "upload" /\ req[r].pc \in {"write", "parse"}})

UnchangedStore == UNCHANGED <<objectStoreType, deleteWhenPrune, backend, files, dirs>>
UnchangedRepo == UNCHANGED <<tags, composes, stagingDirs, exportLinks, dependency, history>>

SetWorld(w) == /\ backend' = w.backend
               /\ files' = w.files
               /\ dirs' = w.dirs
               /\ UNCHANGED <<objectStoreType, deleteWhenPrune>>

Finish(r, res) == req' = [req EXCEPT ![r].pc = "done", ![r].result = res]

\* the response has been sent: the caller is free again
Return(r) ==
    /\ req[r].pc = "done"
    /\ req' = [req EXCEPT ![r] = Idle]
    /\ UNCHANGED <<objectStoreType, deleteWhenPrune, backend, files, dirs, rows, tags,
                   composes, stagingDirs, exportLinks, nextUlid, dependency, history>>

----------------------------------------------------------------------------
(* router/rpm.rs: POST and DELETE /rpm/{ulid}/available *)

mark_rpm_available(r, id) ==
    /\ req[r].op = "idle"
    /\ req' = [req EXCEPT ![r] = [Idle EXCEPT !.op = "mark_available", !.pc = "get",
                                              !.id = id, !.pre = Availability]]
    /\ UNCHANGED <<rows, nextUlid>> /\ UnchangedStore /\ UnchangedRepo

mark_rpm_unavailable(r, id) ==
    /\ req[r].op = "idle"
    /\ req' = [req EXCEPT ![r] = [Idle EXCEPT !.op = "mark_unavailable", !.pc = "get",
                                              !.id = id, !.pre = Availability]]
    /\ UNCHANGED <<rows, nextUlid>> /\ UnchangedStore /\ UnchangedRepo

\* Rpm::get(pkg_id).await.unwrap().unwrap()
Rpm_get(r) ==
    /\ req[r].op \in {"mark_available", "mark_unavailable", "delete", "get_rpm"}
    /\ req[r].pc = "get"
    /\ IF req[r].id \in DOMAIN rows
       THEN IF req[r].op = "get_rpm"
            THEN req' = [req EXCEPT ![r].self = Some(rows[req[r].id]),
                                    ![r].pc = "done", ![r].result = "200"]
            ELSE req' = [req EXCEPT ![r].self = Some(rows[req[r].id]),
                                    ![r].pc = IF req[r].op = "mark_available" THEN "txn"
                                              ELSE IF req[r].op = "mark_unavailable" THEN "unmark"
                                              ELSE "delete_row"]
       ELSE Finish(r, "panic")
    /\ UNCHANGED <<rows, nextUlid>> /\ UnchangedStore /\ UnchangedRepo

\* Rpm::mark_available, first await: the transaction
mark_available_txn(r) ==
    /\ req[r].op \in {"mark_available", "upload"}
    /\ req[r].pc = "txn"
    /\ rows' = MarkAvailableTxn(rows, Unwrap(req[r].self))
    /\ req' = [req EXCEPT ![r].pc = "update"]
    /\ UNCHANGED nextUlid /\ UnchangedStore /\ UnchangedRepo

\* Rpm::mark_available, second await: the full-record update
mark_available_update(r) ==
    /\ req[r].op \in {"mark_available", "upload"}
    /\ req[r].pc = "update"
    /\ LET self == Unwrap(req[r].self)
       IN  /\ rows' = UpdateContent(rows, self.id, MarkAvailableEntry(self))
           /\ Finish(r, IF self.id \in DOMAIN rows THEN "200" ELSE "500")
    /\ UNCHANGED nextUlid /\ UnchangedStore /\ UnchangedRepo

\* Rpm::mark_unavailable
mark_unavailable(r) ==
    /\ req[r].op = "mark_unavailable"
    /\ req[r].pc = "unmark"
    /\ LET self == Unwrap(req[r].self)
       IN  /\ rows' = UpdateAvailableWhereId(rows, self.id, FALSE)
           /\ Finish(r, IF self.id \in DOMAIN rows THEN "200" ELSE "panic")
    /\ UNCHANGED nextUlid /\ UnchangedStore /\ UnchangedRepo

----------------------------------------------------------------------------
(* router/rpm.rs: PUT /rpm/upload *)

\* the argument upload_rpm passes to commit_to_db
upload_commit_latest == TRUE

upload_rpm(r, filename, data, tag, prune) ==
    /\ req[r].op = "idle"
    /\ nextUlid + PendingUlids <= MaxUlid
    /\ req' = [req EXCEPT ![r] = [Idle EXCEPT !.op = "upload", !.pc = "write",
                                              !.filename = filename, !.data = data,
                                              !.tag = tag, !.prune = prune,
                                              !.pre = Availability]]
    /\ UNCHANGED <<rows, nextUlid>> /\ UnchangedStore /\ UnchangedRepo

\* tokio::fs::write(&dest, data)
upload_write(r) ==
    /\ req[r].op = "upload" /\ req[r].pc = "write"
    /\ LET dest == Join(cache_dir, req[r].filename)
       IN  /\ SetWorld(fs_write(World, dest, req[r].data).w)
           /\ req' = [req EXCEPT ![r].pc = "parse", ![r].path = Some(dest)]
    /\ UNCHANGED <<rows, nextUlid>> /\ UnchangedRepo

\* Rpm::from_path(&dest, &tag): parse what the file holds now
upload_parse(r) ==
    /\ req[r].op = "upload" /\ req[r].pc = "parse"
    /\ LET dest == Unwrap(req[r].path)
       IN  IF dest \in DOMAIN files /\ files[dest].parses
           THEN /\ req' = [req EXCEPT ![r].self = Some(Rpm_new(Ulid(nextUlid), files[dest], req[r].tag)),
                                      ![r].pc = "put_file"]
                /\ nextUlid' = nextUlid + 1
           ELSE /\ Finish(r, "500")
                /\ UNCHANGED nextUlid
    /\ UNCHANGED rows /\ UnchangedStore /\ UnchangedRepo

\* objstore.put(..).await.unwrap(), first await: backend.put_file
upload_put_file(r) ==
    /\ req[r].op = "upload" /\ req[r].pc = "put_file"
    /\ LET b == Backend_put_file(objectStoreType, World, Unwrap(req[r].self).object_key, Unwrap(req[r].path))
       IN  /\ SetWorld(b.w)
           /\ IF b.ok THEN req' = [req EXCEPT ![r].pc = "cache_put"] ELSE Finish(r, "panic")
    /\ UNCHANGED <<rows, nextUlid>> /\ UnchangedRepo

\* objstore.put(..).await.unwrap(), then: cache.put
upload_cache_put(r) ==
    /\ req[r].op = "upload" /\ req[r].pc = "cache_put"
    /\ LET c == Cache_put(World, Unwrap(req[r].self).object_key, Unwrap(req[r].path))
       IN  /\ SetWorld(c.w)
           /\ IF c.ok THEN req' = [req EXCEPT ![r].pc = "insert"] ELSE Finish(r, "panic")
    /\ UNCHANGED <<rows, nextUlid>> /\ UnchangedRepo

\* Rpm::commit_to_db(latest): the insert, then mark_available if latest
commit_to_db(r, latest) ==
    /\ req[r].op = "upload" /\ req[r].pc = "insert"
    /\ rows' = InsertRow(rows, Unwrap(req[r].self))
    /\ IF latest THEN req' = [req EXCEPT ![r].pc = "txn"] ELSE Finish(r, "200")
    /\ UNCHANGED nextUlid /\ UnchangedStore /\ UnchangedRepo

----------------------------------------------------------------------------
(* The package requests, one call at a time, from an empty installation *)

InitEmpty ==
    /\ objectStoreType \in ObjectStoreTypes
    /\ backend = << >>
    /\ files = << >>
    /\ dirs = {}
    /\ rows = << >>
    /\ deleteWhenPrune = FALSE
    /\ tags = TagsOf(TagNames)
    /\ dependency = NoDependency
    /\ composes = << >>
    /\ stagingDirs = << >>
    /\ exportLinks = << >>
    /\ nextUlid = 1
    /\ req = [r \in Reqs |-> Idle]
    /\ history = << >>

\* with one call at a time it does not matter which caller makes it
FirstCaller == CHOOSE r \in Reqs : \A q \in Reqs : r <= q

\* the client that sends requests while the first caller is busy
OtherCaller == CHOOSE r \in Reqs : r # FirstCaller

NextPkgSeq ==
    \/ \E id \in IdArgs : Quiet /\ mark_rpm_available(FirstCaller, id)
    \/ \E id \in IdArgs : Quiet /\ mark_rpm_unavailable(FirstCaller, id)
    \/ \E f \in Filenames, u \in Uploads, p \in BOOLEAN :
          Quiet /\ upload_rpm(FirstCaller, f, u[1], u[2], p)
    \/ \E r \in Reqs : Rpm_get(r)
    \/ \E r \in Reqs : mark_available_txn(r)
    \/ \E r \in Reqs : mark_available_update(r)
    \/ \E r \in Reqs : mark_unavailable(r)
    \/ \E r \in Reqs : upload_write(r)
    \/ \E r \in Reqs : upload_parse(r)
    \/ \E r \in Reqs : upload_put_file(r)
    \/ \E r \in Reqs : upload_cache_put(r)
    \/ \E r \in Reqs : commit_to_db(r, upload_commit_latest)
    \/ \E r \in Reqs : Return(r)

SpecPkgSeq == InitEmpty /\ [][NextPkgSeq]_vars

----------------------------------------------------------------------------
(* Concurrent mark requests on an installation that holds MaxUlid packages *)

\* what was ingested as package n: the first two are a.x in tag t, each other
\* one is any of Ingested
Installations == {f \in [1..MaxUlid -> Ingested] :
                     \A n \in DOMAIN f : n <= 2 => f[n] = <<Rpm_a1x, "t">>}

RowsOf(inst) ==
    [id \in {Ulid(n) : n \in DOMAIN inst} |->
        LET n == CHOOSE m \in DOMAIN inst : Ulid(m) = id
        IN  Rpm_new(id, inst[n][1], inst[n][2])]

\* the objects of an installation, as ingest stored them
ObjectsOf(inst) ==
    [k \in {RowsOf(inst)[id].object_key : id \in DOMAIN RowsOf(inst)} |->
        LET n == CHOOSE m \in DOMAIN inst : RowsOf(inst)[Ulid(m)].object_key = k
        IN  inst[n][1]]

DirsOf(paths) == UNION {Ancestors(p) : p \in paths}

InitInstalled ==
    /\ objectStoreType = "s3"
    /\ \E inst \in Installations :
          /\ rows = RowsOf(inst)
          /\ backend = IF objectStoreType = "cacheonly" THEN << >> ELSE ObjectsOf(inst)
          /\ files = ObjectsOf(inst)
          /\ dirs = DirsOf(DOMAIN ObjectsOf(inst))
    /\ deleteWhenPrune = FALSE
    /\ tags = TagsOf(TagNames)
    /\ dependency = NoDependency
    /\ composes = << >>
    /\ stagingDirs = << >>
    /\ exportLinks = << >>
    /\ nextUlid = MaxUlid + 1
    /\ req = [r \in Reqs |-> Idle]
    /\ history = << >>

NextMark ==
    \/ \E r \in Reqs, id \in IdArgs : mark_rpm_available(r, id)
    \/ \E r \in Reqs, id \in IdArgs : mark_rpm_unavailable(r, id)
    \/ \E r \in Reqs : Rpm_get(r)
    \/ \E r \in Reqs : mark_available_txn(r)
    \/ \E r \in Reqs : mark_available_update(r)
    \/ \E r \in Reqs : mark_unavailable(r)
    \/ \E r \in Reqs : Return(r)

SpecMark == InitInstalled /\ [][NextMark]_vars

----------------------------------------------------------------------------
(* The object storage facade called directly (obj_store/mod.rs, Object),  *)
(* one call at a time.  history[k] is the content of the last successful  *)
(* put of k, as long as no remove and no put_bytes of k came after it.    *)

\* the keys: the same package ingested under each of MaxStoreKeys ids
StoreKeys == {rpm_object_key(Ulid(n), Rpm_a1x)[1] : n \in 1..MaxStoreKeys}
\* what a file or an object can hold
StoreBytes == {Rpm_a1x, Rpm_b1x}
\* where a client's file is staged: cache_dir.join(filename)
SourcePaths == {Join(cache_dir, f) : f \in Filenames}

\* the content of the last successful put of k, when neither remove(k) nor
\* put_bytes(k) came after it
LastPut(k) == IF k \in DOMAIN history THEN Some(history[k]) ELSE None

\* the caller's record of a finished call; pre tells whether key was cached
\* when the call started
CalledRecord(op, key, res) ==
    [Idle EXCEPT !.op = op, !.pc = "done", !.key = key,
                 !.pre = IsSome(Cache_get(World, key)),
                 !.path = res.path,
                 !.result = IF res.ok THEN "ok" ELSE "err"]

Called(r, op, key, res) == req' = [req EXCEPT ![r] = CalledRecord(op, key, res)]

\* tokio::fs::write(&dest, data): a client's file arrives in cache_dir
write_source(path, bytes) ==
    /\ Quiet
    /\ SetWorld(fs_write(World, path, bytes).w)
    /\ UNCHANGED <<rows, nextUlid, req>> /\ UnchangedRepo

\* Object::put_file
Object_put_file(r, key, path) ==
    /\ Quiet
    /\ LET res == ObjectStorage_put(objectStoreType, World, key, path)
       IN  /\ SetWorld(res.w)
           /\ Called(r, "put", key, res)
           /\ history' = IF res.ok THEN Put(history, key, files[path]) ELSE history
    /\ UNCHANGED <<rows, nextUlid, tags, composes, stagingDirs, exportLinks, dependency>>

\* Object::get
Object_get(r, key) ==
    /\ Quiet
    /\ LET res == ObjectStorage_get(objectStoreType, World, key)
       IN  /\ SetWorld(res.w)
           /\ Called(r, "get", key, res)
    /\ UNCHANGED <<rows, nextUlid>> /\ UnchangedRepo

\* Object::refresh
Object_refresh(r, key) ==
    /\ Quiet
    /\ LET res == ObjectStorage_refresh(objectStoreType, World, key)
       IN  /\ SetWorld(res.w)
           /\ Called(r, "refresh", key, res)
    /\ UNCHANGED <<rows, nextUlid>> /\ UnchangedRepo

\* Object::delete
Object_delete(r, key) ==
    /\ Quiet
    /\ LET res == ObjectStorage_remove(objectStoreType, World, key)
       IN  /\ SetWorld(res.w)
           /\ Called(r, "remove", key, res)
    /\ history' = Drop(history, key)
    /\ UNCHANGED <<rows, nextUlid, tags, composes, stagingDirs, exportLinks, dependency>>

\* object_store().put_bytes(key, bytes)
Call_put_bytes(r, key, bytes) ==
    /\ Quiet
    /\ LET res == ObjectStorage_put_bytes(objectStoreType, World, key, bytes)
       IN  /\ SetWorld(res.w)
           /\ req' = [req EXCEPT ![r] = [CalledRecord("put_bytes", key, res)
                                             EXCEPT !.data = bytes]]
    /\ history' = Drop(history, key)
    /\ UNCHANGED <<rows, nextUlid, tags, composes, stagingDirs, exportLinks, dependency>>

\* Cache::remove called on its own: the entry leaves the cache, the backend
\* keeps the object
Call_Cache_remove(r, key) ==
    /\ Quiet
    /\ LET res == Cache_remove(World, key)
       IN  /\ SetWorld(res.w)
           /\ Called(r, "cache_remove", key, [ok |-> res.ok, path |-> None])
    /\ UNCHANGED <<rows, nextUlid>> /\ UnchangedRepo

NextStore ==
    \/ \E p \in SourcePaths, b \in StoreBytes : write_source(p, b)
    \/ \E k \in StoreKeys, p \in SourcePaths : Object_put_file(FirstCaller, k, p)
    \/ \E k \in StoreKeys : Object_get(FirstCaller, k)
    \/ \E k \in StoreKeys : Object_refresh(FirstCaller, k)
    \/ \E k \in StoreKeys : Object_delete(FirstCaller, k)
    \/ \E k \in StoreKeys, b \in StoreBytes : Call_put_bytes(FirstCaller, k, b)
    \/ \E k \in StoreKeys : Call_Cache_remove(FirstCaller, k)
    \/ Return(FirstCaller)

SpecStore == InitEmpty /\ [][NextStore]_vars

----------------------------------------------------------------------------
(* ObjectStorage::get run by several callers at once.  A call is cut at    *)
(* its awaits: the cache lookup, the backend's download into the staging   *)
(* file, Cache::put's copy into the cache, Cache::put's removal of the     *)
(* staging file.  Each file system call is taken as one step.             *)

\* the content stored under every key of StoreKeys
StoredBytes == Rpm_a1x

\* the store after earlier ingests: every key is in the backend (the cache-only
\* variant stores nothing), some of them are still cached
InitStored ==
    /\ objectStoreType \in ObjectStoreTypes
    /\ backend = IF objectStoreType = "cacheonly" THEN << >>
                 ELSE [k \in StoreKeys |-> StoredBytes]
    /\ \E cached \in SUBSET StoreKeys :
          /\ files = [p \in {Join(cache_dir, k) : k \in cached} |-> StoredBytes]
          /\ dirs = DirsOf({Join(cache_dir, k) : k \in cached})
    /\ rows = << >>
    /\ deleteWhenPrune = FALSE
    /\ tags = TagsOf(TagNames)
    /\ dependency = NoDependency
    /\ composes = << >>
    /\ stagingDirs = << >>
    /\ exportLinks = << >>
    /\ nextUlid = 1
    /\ req = [r \in Reqs |-> Idle]
    /\ history = << >>

UnchangedTables == UNCHANGED <<rows, nextUlid>> /\ UnchangedRepo

\* the call has returned: data is what the returned path held at that moment
GetReturns(r, res, path) ==
    req' = [req EXCEPT ![r].pc = "done", ![r].result = res, ![r].path = path,
                       ![r].data = IF IsSome(path) /\ Unwrap(path) \in DOMAIN files'
                                   THEN files'[Unwrap(path)] ELSE EmptyFile]

\* ObjectStorage::get, up to the first await: if let Some(path) = self.cache.get(key)
get_lookup(r, key) ==
    /\ req[r].op = "idle"
    /\ LET hit == Cache_get(World, key)
       IN  IF IsSome(hit)
           THEN req' = [req EXCEPT ![r] = [Idle EXCEPT !.op = "get", !.pc = "done",
                                                       !.key = key, !.pre = TRUE,
                                                       !.result = "ok", !.path = hit,
                                                       !.data = files[Unwrap(hit)]]]
           ELSE req' = [req EXCEPT ![r] = [Idle EXCEPT !.op = "get", !.pc = "get_object",
                                                       !.key = key, !.pre = FALSE]]
    /\ UnchangedStore /\ UnchangedTables

\* self.backend.get_object(key).await?
get_get_object(r) ==
    /\ req[r].op = "get" /\ req[r].pc = "get_object"
    /\ LET g == Backend_get_object(objectStoreType, World, req[r].key)
       IN  /\ SetWorld(g.w)
           /\ IF g.ok THEN req' = [req EXCEPT ![r].pc = "copy", ![r].path = g.path]
                      ELSE GetReturns(r, "err", None)
    /\ UnchangedTables

\* Cache::put: create_dir_all(parent).await?; tokio::fs::copy(&path, &dest).await?
get_cache_put_copy(r) ==
    /\ req[r].op = "get" /\ req[r].pc = "copy"
    /\ LET dest == Join(cache_dir, req[r].key)
           c == fs_copy(create_dir_all(World, Parent(dest)), Unwrap(req[r].path), dest)
       IN  /\ SetWorld(c.w)
           /\ IF c.ok THEN req' = [req EXCEPT ![r].pc = "remove"]
                      ELSE GetReturns(r, "err", None)
    /\ UnchangedTables

\* Cache::put: tokio::fs::remove_file(path).await?; then get returns the cache path
get_cache_put_remove(r) ==
    /\ req[r].op = "get" /\ req[r].pc = "remove"
    /\ LET d == fs_remove_file(World, Unwrap(req[r].path))
       IN  /\ SetWorld(d.w)
           /\ IF d.ok THEN GetReturns(r, "ok", Some(Join(cache_dir, req[r].key)))
                      ELSE GetReturns(r, "err", None)
    /\ UnchangedTables

NextGet ==
    \/ \E r \in Reqs, k \in StoreKeys : get_lookup(r, k)
    \/ \E r \in Reqs : get_get_object(r)
    \/ \E r \in Reqs : get_cache_put_copy(r)
    \/ \E r \in Reqs : get_cache_put_remove(r)
    \/ \E r \in Reqs : Return(r)

SpecGet == InitStored /\ [][NextGet]_vars

----------------------------------------------------------------------------
(* ObjectStorage::remove cut at its await, run while a get is in flight *)

\* ObjectStorage::remove, up to its await: self.backend.delete_object(key).await?
\* The caller's record keeps whether the call took the key out of the backend.
remove_delete_object(r, key) ==
    /\ req[r].op = "idle"
    /\ LET d == Backend_delete_object(objectStoreType, World, key)
       IN  /\ SetWorld(d.w)
           /\ req' = [req EXCEPT ![r] =
                        [Idle EXCEPT !.op = "remove", !.key = key,
                                     !.pre = d.ok /\ key \in DOMAIN backend,
                                     !.pc = IF d.ok THEN "cache_remove" ELSE "done",
                                     !.result = IF d.ok THEN "none" ELSE "err"]]
    /\ UnchangedTables

\* self.cache.remove(key).await
remove_cache_remove(r) ==
    /\ req[r].op = "remove" /\ req[r].pc = "cache_remove"
    /\ LET c == Cache_remove(World, req[r].key)
       IN  /\ SetWorld(c.w)
           /\ req' = [req EXCEPT ![r].pc = "done",
                                 ![r].result = IF c.ok THEN "ok" ELSE "err"]
    /\ UnchangedTables

NextGetRemove ==
    \/ \E k \in StoreKeys : get_lookup(FirstCaller, k)
    \/ \E k \in StoreKeys : remove_delete_object(OtherCaller, k)
    \/ \E r \in Reqs : get_get_object(r)
    \/ \E r \in Reqs : get_cache_put_copy(r)
    \/ \E r \in Reqs : get_cache_put_remove(r)
    \/ \E r \in Reqs : remove_cache_remove(r)
    \/ \E r \in Reqs : Return(r)

SpecGetRemove == InitStored /\ [][NextGetRemove]_vars

----------------------------------------------------------------------------
(* router/rpm.rs: DELETE /rpm/{ulid}, and Rpm::delete cut at its awaits *)

delete_rpm(r, id) ==
    /\ req[r].op = "idle"
    /\ req' = [req EXCEPT ![r] = [Idle EXCEPT !.op = "delete", !.pc = "get", !.id = id]]
    /\ UNCHANGED <<rows, nextUlid>> /\ UnchangedStore /\ UnchangedRepo

\* DB.delete((RPM_TABLE, id)).await?
Rpm_delete_row(r) ==
    /\ req[r].op = "delete" /\ req[r].pc = "delete_row"
    /\ rows' = Drop(rows, Unwrap(req[r].self).id)
    /\ req' = [req EXCEPT ![r].pc = "delete_object"]
    /\ UNCHANGED nextUlid /\ UnchangedStore /\ UnchangedRepo

\* object_store().remove(&self.object_key), first await: backend.delete_object
Rpm_delete_object(r) ==
    /\ req[r].op = "delete" /\ req[r].pc = "delete_object"
    /\ LET d == Backend_delete_object(objectStoreType, World, Unwrap(req[r].self).object_key)
       IN  /\ SetWorld(d.w)
           /\ IF d.ok THEN req' = [req EXCEPT ![r].pc = "cache_remove"] ELSE Finish(r, "500")
    /\ UNCHANGED <<rows, nextUlid>> /\ UnchangedRepo

\* object_store().remove(&self.object_key), then: cache.remove
Rpm_delete_cache(r) ==
    /\ req[r].op = "delete" /\ req[r].pc = "cache_remove"
    /\ LET c == Cache_remove(World, Unwrap(req[r].self).object_key)
       IN  /\ SetWorld(c.w)
           /\ Finish(r, IF c.ok THEN "200" ELSE "500")
    /\ UNCHANGED <<rows, nextUlid>> /\ UnchangedRepo

----------------------------------------------------------------------------
(* db/tag.rs: Tag::assemble cut at its awaits, next to requests that mark  *)
(* and delete packages.  stagingDirs maps a directory under repo_cache_dir *)
(* to its symlinks (entry name -> target) and whether createrepo_c has     *)
(* generated its metadata; exportLinks maps a tag to the target of the     *)
(* symlink export_dir/<tag>.                                               *)

\* From<&Rpm> for RpmRef
RpmRef_from(rpm) ==
    [id |-> rpm.id, name |-> rpm.name, object_key |-> rpm.object_key,
     signed_object_key |-> rpm.signed_object_key, tag |-> Some(rpm.tag)]

\* TagCompose::new that drops the package list
TagCompose_new_NoPackages(id, tag, packages) == [id |-> id, tag |-> tag, packages |-> {}]

\* TagCompose::new, with the ULID it draws
TagCompose_new(id, tag, packages) == [id |-> id, tag |-> tag, packages |-> packages]

\* format!("{tag}/{tag}_{staging_id}")
staging_dir_name(tag, staging_id) == tag \o "/" \o tag \o "_" \o staging_id

\* format!("{ulid}-{cache_key_filename}")
target_name(pkg) == pkg.id \o "-" \o file_name(pkg.object_key)

\* the tags that exist and get assembled
AsmTags == {"t"}

\* ULIDs still to be drawn by assembles that have not saved their compose row
PendingComposes ==
    Cardinality({r \in Reqs : req[r].op = "assemble" /\ req[r].pc \in {"snapshot", "compose"}})

UnchangedExport == UNCHANGED <<tags, exportLinks, dependency, history>>

\* what export_dir/<tag> is: nothing, or a symlink and its target
ExportOf(tag) == IF tag \in DOMAIN exportLinks THEN Some(exportLinks[tag]) ELSE None

\* POST /repo/{id}/assemble: Tag::get, NotFound for a tag that does not exist.
\* The caller's record keeps what the export path was when the call started.
assemble_tag(r, tag) ==
    /\ req[r].op = "idle"
    /\ nextUlid + PendingComposes <= MaxAsmUlid
    /\ req' = [req EXCEPT ![r] =
                  IF tag \in DOMAIN tags
                  THEN [Idle EXCEPT !.op = "assemble", !.pc = "snapshot", !.tag = tag,
                                    !.before = ExportOf(tag)]
                  ELSE [Idle EXCEPT !.op = "assemble", !.pc = "done", !.tag = tag,
                                    !.before = ExportOf(tag), !.result = "404"]]
    /\ UNCHANGED <<rows, nextUlid>> /\ UnchangedStore /\ UnchangedRepo

\* let pkgs = self.get_available_rpms().await?
assemble_snapshot(r) ==
    /\ req[r].op = "assemble" /\ req[r].pc = "snapshot"
    /\ req' = [req EXCEPT ![r].pkgs = [i \in get_available_rpms(rows, req[r].tag) |-> rows[i]],
                          ![r].pc = "compose"]
    /\ UNCHANGED <<rows, nextUlid>> /\ UnchangedStore /\ UnchangedRepo

\* TagCompose::new(&self.name, pkgs.iter().map(|r| r.into()).collect()).save().await?
assemble_compose(r) ==
    /\ req[r].op = "assemble" /\ req[r].pc = "compose"
    /\ LET pkgs == req[r].pkgs
           compose == TagCompose_new(Ulid(nextUlid), req[r].tag,
                                     {RpmRef_from(pkgs[i]) : i \in DOMAIN pkgs})
       IN  /\ composes' = Put(composes, compose.id, compose)
           /\ req' = [req EXCEPT ![r].staging_id = compose.id,
                                 ![r].appended = DOMAIN composes' \ DOMAIN composes,
                                 ![r].pc = "staging"]
    /\ nextUlid' = nextUlid + 1
    /\ UNCHANGED <<rows, stagingDirs>> /\ UnchangedStore /\ UnchangedExport

\* if staging_dir.exists() { return Err }; create_dir_all(&staging_dir).await?
assemble_create_staging(r) ==
    /\ req[r].op = "assemble" /\ req[r].pc = "staging"
    /\ LET staging_dir == staging_dir_name(req[r].tag, req[r].staging_id)
       IN  IF staging_dir \in DOMAIN stagingDirs
           THEN /\ Finish(r, "500")
                /\ UNCHANGED stagingDirs
           ELSE /\ stagingDirs' = Put(stagingDirs, staging_dir,
                                      [entries |-> << >>, generated |-> FALSE])
                /\ req' = [req EXCEPT ![r].todo = DOMAIN req[r].pkgs, ![r].pc = "populate"]
    /\ UNCHANGED <<rows, nextUlid, composes>> /\ UnchangedStore /\ UnchangedExport

\* one future of try_join_all: object_store().get(key).await?.canonicalize()?,
\* then symlink(src, target_path); the first failure fails the assemble
assemble_symlink(r, p) ==
    /\ req[r].op = "assemble" /\ req[r].pc = "populate"
    /\ p \in req[r].todo
    /\ LET pkg == req[r].pkgs[p]
           staging_dir == staging_dir_name(req[r].tag, req[r].staging_id)
           g == ObjectStorage_get(objectStoreType, World, pkg.object_key)
       IN  /\ SetWorld(g.w)
           /\ IF g.ok
              THEN /\ stagingDirs' = [stagingDirs EXCEPT ![staging_dir].entries =
                                         Put(@, target_name(pkg), Unwrap(g.path))]
                   /\ req' = [req EXCEPT ![r].todo = @ \ {p}]
              ELSE /\ Finish(r, "500")
                   /\ UNCHANGED stagingDirs
    /\ UNCHANGED <<rows, nextUlid, composes>> /\ UnchangedExport

\* a generator that does not wait for the symlinks
AllSymlinked_NoWait(r) == TRUE

\* try_join_all(..).await?: every future of the population has finished
AllSymlinked(r) == req[r].todo = {}

\* an exit status that is not looked at
GeneratorOk_Unchecked(success) == TRUE

\* status.success()
GeneratorOk(success) == success

\* Command::new("createrepo_c").arg(&staging_dir): the generator exits with
\* success or not, and a directory counts as generated if it exited with success
assemble_createrepo(r, success) ==
    /\ req[r].op = "assemble" /\ req[r].pc = "populate"
    /\ AllSymlinked(r)
    /\ LET staging_dir == staging_dir_name(req[r].tag, req[r].staging_id)
       IN  IF GeneratorOk(success)
           THEN /\ stagingDirs' = [stagingDirs EXCEPT ![staging_dir].generated = success]
                /\ req' = [req EXCEPT ![r].pc = "install"]
           ELSE /\ Finish(r, "500")
                /\ UNCHANGED stagingDirs
    /\ UNCHANGED <<rows, nextUlid, composes>> /\ UnchangedStore /\ UnchangedExport

\* Path::exists on export_dir/<tag>: the symlink is followed
export_dir_exists(tag) == tag \in DOMAIN exportLinks /\ exportLinks[tag] \in DOMAIN stagingDirs

\* if export_dir.exists() { ... }
assemble_export_exists(r) ==
    /\ req[r].op = "assemble" /\ req[r].pc = "install"
    /\ req' = [req EXCEPT ![r].pc = IF export_dir_exists(req[r].tag) THEN "remove" ELSE "symlink"]
    /\ UNCHANGED <<rows, nextUlid>> /\ UnchangedStore /\ UnchangedRepo

\* tokio::fs::remove_dir_all(&export_dir).await?: on a symlink, the link is removed
assemble_remove_export(r) ==
    /\ req[r].op = "assemble" /\ req[r].pc = "remove"
    /\ IF req[r].tag \in DOMAIN exportLinks
       THEN /\ exportLinks' = Drop(exportLinks, req[r].tag)
            /\ req' = [req EXCEPT ![r].pc = "symlink"]
       ELSE /\ Finish(r, "500")
            /\ UNCHANGED exportLinks
    /\ UNCHANGED <<rows, nextUlid, tags, composes, stagingDirs, dependency, history>>
    /\ UnchangedStore

\* the names in a staging directory whose symlinks resolve to a file
Resolving(staging_dir) ==
    {n \in DOMAIN stagingDirs[staging_dir].entries :
        stagingDirs[staging_dir].entries[n] \in DOMAIN files}

\* tokio::fs::symlink(&staging_dir, &export_dir).await?; Ok(()).  The caller's
\* record keeps what the export path pointed at and which entries of that
\* directory resolved when the call returned.
assemble_symlink_export(r) ==
    /\ req[r].op = "assemble" /\ req[r].pc = "symlink"
    /\ LET staging_dir == staging_dir_name(req[r].tag, req[r].staging_id)
       IN  IF req[r].tag \in DOMAIN exportLinks
           THEN /\ Finish(r, "500")
                /\ UNCHANGED <<exportLinks, history>>
           ELSE /\ exportLinks' = Put(exportLinks, req[r].tag, staging_dir)
                /\ req' = [req EXCEPT ![r].pc = "done", ![r].result = "202",
                                      ![r].path = Some(exportLinks'[req[r].tag]),
                                      ![r].pre = Resolving(staging_dir)]
                /\ history' = Put(history, req[r].staging_id, req[r].tag)
    /\ UNCHANGED <<rows, nextUlid, tags, composes, stagingDirs, dependency>> /\ UnchangedStore

\* the installation the assembles run on: a.x and b.x ingested in turn, all in
\* tag t
Assembled == [n \in 1..MaxAsmPkgs |-> IF n % 2 = 1 THEN <<Rpm_a1x, "t">> ELSE <<Rpm_b1x, "t">>]

\* the ids a request on that installation can name
AsmIds == {Ulid(n) : n \in DOMAIN Assembled}

\* the ids that are available after the packages were ingested in order: the
\* last one of each group
LatestOf(inst) ==
    {Ulid(n) : n \in {n \in DOMAIN inst :
                        \A m \in DOMAIN inst :
                            m > n => ~SameGroup(RowsOf(inst)[Ulid(m)], RowsOf(inst)[Ulid(n)])}}

\* the state after the ingests, with the cache still warm or emptied since
InitAssembled ==
    /\ objectStoreType = "s3"
    /\ rows = [i \in DOMAIN RowsOf(Assembled) |->
                 [RowsOf(Assembled)[i] EXCEPT !.available = i \in LatestOf(Assembled)]]
    /\ backend = ObjectsOf(Assembled)
    /\ \E warm \in BOOLEAN :
          /\ files = IF warm THEN ObjectsOf(Assembled) ELSE << >>
          /\ dirs = IF warm THEN DirsOf(DOMAIN ObjectsOf(Assembled)) ELSE {}
    /\ deleteWhenPrune = FALSE
    /\ tags = TagsOf(TagNames)
    /\ dependency = NoDependency
    /\ composes = << >>
    /\ stagingDirs = << >>
    /\ exportLinks = << >>
    /\ nextUlid = MaxAsmPkgs + 1
    /\ req = [r \in Reqs |-> Idle]
    /\ history = << >>

\* the first caller assembles, one call after the other; another client marks
\* and deletes packages meanwhile
NextAsm ==
    \/ \E tag \in AsmTags : assemble_tag(FirstCaller, tag)
    \/ \E id \in AsmIds : mark_rpm_available(OtherCaller, id)
    \/ \E id \in AsmIds : mark_rpm_unavailable(OtherCaller, id)
    \/ \E id \in AsmIds : delete_rpm(OtherCaller, id)
    \/ \E r \in Reqs : Rpm_get(r)
    \/ \E r \in Reqs : mark_available_txn(r)
    \/ \E r \in Reqs : mark_available_update(r)
    \/ \E r \in Reqs : mark_unavailable(r)
    \/ \E r \in Reqs : Rpm_delete_row(r)
    \/ \E r \in Reqs : Rpm_delete_object(r)
    \/ \E r \in Reqs : Rpm_delete_cache(r)
    \/ \E r \in Reqs : assemble_snapshot(r)
    \/ \E r \in Reqs : assemble_compose(r)
    \/ \E r \in Reqs : assemble_create_staging(r)
    \/ \E r \in Reqs, p \in AsmIds : assemble_symlink(r, p)
    \/ \E r \in Reqs, success \in BOOLEAN : assemble_createrepo(r, success)
    \/ \E r \in Reqs : assemble_export_exists(r)
    \/ \E r \in Reqs : assemble_remove_export(r)
    \/ \E r \in Reqs : assemble_symlink_export(r)
    \/ \E r \in Reqs : Return(r)

SpecAsm == InitAssembled /\ [][NextAsm]_vars

\* every caller assembles: calls on one tag interleave at their awaits
NextAsmRace ==
    \/ \E r \in Reqs, tag \in AsmTags : assemble_tag(r, tag)
    \/ \E r \in Reqs : assemble_snapshot(r)
    \/ \E r \in Reqs : assemble_compose(r)
    \/ \E r \in Reqs : assemble_create_staging(r)
    \/ \E r \in Reqs, p \in AsmIds : assemble_symlink(r, p)
    \/ \E r \in Reqs, success \in BOOLEAN : assemble_createrepo(r, success)
    \/ \E r \in Reqs : assemble_export_exists(r)
    \/ \E r \in Reqs : assemble_remove_export(r)
    \/ \E r \in Reqs : assemble_symlink_export(r)
    \/ \E r \in Reqs : Return(r)

SpecAsmRace == InitAssembled /\ [][NextAsmRace]_vars

----------------------------------------------------------------------------
(* Claims on the availability flag *)

\* at most one available package per (tag, name, arch)
A1 == \A i, j \in DOMAIN rows :
         (i # j /\ SameGroup(rows[i], rows[j])) => ~(rows[i].available /\ rows[j].available)

NoCallInFlight == \A r \in Reqs : ~InFlight(r)

\* C1: after any sequence of completed mark_available, mark_unavailable and
\* commit_to_db(latest = true) calls, run one at a time, every (tag, name, arch)
\* has at most one available package.
C1_A1Sequential == NoCallInFlight => A1

\* a second package of a group has been marked: the first one lost its flag
C1_Witness ==
    \E r \in Reqs, i, j \in DOMAIN rows :
        /\ req[r].pc = "done" /\ req[r].result = "200"
        /\ req[r].op \in {"mark_available", "upload"}
        /\ i # j /\ SameGroup(rows[i], rows[j])
        /\ i \in DOMAIN req[r].pre /\ req[r].pre[i]
        /\ ~rows[i].available /\ rows[j].available

\* C2: once interleaved mark_available calls on packages of one group have all
\* finished, at most one package of the group is available.
C2_A1Concurrent ==
    \A r1, r2 \in Reqs :
        (/\ r1 # r2 /\ NoCallInFlight
         /\ req[r1].op = "mark_available" /\ req[r1].result = "200"
         /\ req[r2].op = "mark_available" /\ req[r2].result = "200"
         /\ req[r1].id # req[r2].id
         /\ SameGroup(rows[req[r1].id], rows[req[r2].id]))
        => ~(rows[req[r1].id].available /\ rows[req[r2].id].available)

C4_IngestHonoursArgument ==
    \A r \in Reqs :
        (req[r].op = "upload" /\ req[r].pc = "done" /\ req[r].result = "200" /\ ~req[r].prune)
        => /\ ~rows[Unwrap(req[r].self).id].available
           /\ \A i \in DOMAIN req[r].pre : rows[i].available = req[r].pre[i]

----------------------------------------------------------------------------
(* Claims on the object storage facade *)

\* a call of the facade that has just returned
Returned(r, op) == req[r].op = op /\ req[r].pc = "done"
ReturnedOk(r, op) == Returned(r, op) /\ req[r].result = "ok"

\* C5 as stated: after ObjectStorage.put(k, p) returns successfully, Cache.get(k)
\* returns a path and backend.get_object(k) succeeds, whatever the backend variant.
C5_CacheMirrorEveryVariant ==
    \A r \in Reqs :
        ReturnedOk(r, "put")
        => /\ IsSome(Cache_get(World, req[r].key))
           /\ Backend_get_object(objectStoreType, World, req[r].key).ok

\* C5: after ObjectStorage.put(k, p) returns successfully, Cache.get(k) returns a
\* path for every backend variant; backend.get_object(k) succeeds when the backend
\* is the S3 or the local store, and fails NotFound when it is the cache-only one.
C5_CacheMirror ==
    \A r \in Reqs :
        ReturnedOk(r, "put")
        => /\ IsSome(Cache_get(World, req[r].key))
           /\ Backend_get_object(objectStoreType, World, req[r].key).ok
                  <=> objectStoreType # "cacheonly"

\* a put returned Ok on the cache-only variant: the key is cached
C5_Witness ==
    \E r \in Reqs :
        /\ ReturnedOk(r, "put") /\ objectStoreType = "cacheonly"
        /\ Join(cache_dir, req[r].key) \in DOMAIN files

C7_RefreshRefetches ==
    \A r \in Reqs :
        (Returned(r, "refresh") /\ req[r].key \in DOMAIN backend)
        => /\ Join(cache_dir, req[r].key) \in DOMAIN files
           /\ files[Join(cache_dir, req[r].key)] = backend[req[r].key]

\* C8: two callers that ran get(k) at the same time for a key k of the backend
\* that was not cached both return Ok with a path to an existing file holding
\* k's content, and the cache then holds a complete copy of k.
C8_GetRaceSafe ==
    \A r1, r2 \in Reqs :
        (/\ r1 # r2 /\ Returned(r1, "get") /\ Returned(r2, "get")
         /\ req[r1].key = req[r2].key /\ req[r1].key \in DOMAIN backend
         /\ ~req[r1].pre /\ ~req[r2].pre)
        => /\ \A r \in {r1, r2} : /\ req[r].result = "ok"
                                  /\ req[r].data = backend[req[r].key]
           /\ Join(cache_dir, req[r1].key) \in DOMAIN files
           /\ files[Join(cache_dir, req[r1].key)] = backend[req[r1].key]

\* an assemble call has returned Ok(()): the handler answers 202
AssembleOk(r) == Returned(r, "assemble") /\ req[r].result = "202"

\* C9: after Tag.assemble returns successfully, export_dir/<tag> points to a
\* staging directory that holds exactly one entry for each package that
\* get_available_rpms returned at the start of the call, and each entry resolves
\* to an existing cached file of that package's object_key.
C9_AssemblyFreshness ==
    \A r \in Reqs :
        AssembleOk(r)
        => LET staging_dir == Unwrap(req[r].path)
               pkgs == req[r].pkgs
           IN  /\ staging_dir \in DOMAIN stagingDirs
               /\ DOMAIN stagingDirs[staging_dir].entries
                      = {target_name(pkgs[i]) : i \in DOMAIN pkgs}
               /\ Cardinality(DOMAIN stagingDirs[staging_dir].entries)
                      = Cardinality(DOMAIN pkgs)
               /\ \A i \in DOMAIN pkgs :
                      stagingDirs[staging_dir].entries[target_name(pkgs[i])]
                          = Join(cache_dir, pkgs[i].object_key)
               /\ req[r].pre = DOMAIN stagingDirs[staging_dir].entries

\* C10: every Tag.assemble call that returns successfully has appended exactly
\* one Compose row; the row's id is the staging_id of the exported staging
\* directory and its packages are exactly the packages symlinked into that
\* directory.
C10_ComposeLog ==
    \A r \in Reqs :
        AssembleOk(r)
        => LET staging_id == req[r].staging_id
               staging_dir == Unwrap(req[r].path)
           IN  /\ req[r].appended = {staging_id}
               /\ staging_id \in DOMAIN composes
               /\ composes[staging_id].id = staging_id
               /\ staging_dir = staging_dir_name(req[r].tag, staging_id)
               /\ staging_dir \in DOMAIN stagingDirs
               /\ DOMAIN stagingDirs[staging_dir].entries
                      = {target_name(ref) : ref \in composes[staging_id].packages}
               /\ Cardinality(DOMAIN stagingDirs[staging_dir].entries)
                      = Cardinality(composes[staging_id].packages)
               /\ \A ref \in composes[staging_id].packages :
                      stagingDirs[staging_dir].entries[target_name(ref)]
                          = Join(cache_dir, ref.object_key)

\* a second assemble of the tag returned Ok with two packages in its staging
\* directory and two rows in the compose log
C10_Witness ==
    \E r \in Reqs :
        /\ AssembleOk(r)
        /\ Cardinality(DOMAIN composes) >= 2
        /\ req[r].staging_id \in DOMAIN composes
        /\ Cardinality(composes[req[r].staging_id].packages) >= 2
        /\ Cardinality(DOMAIN stagingDirs[Unwrap(req[r].path)].entries) >= 2

\* the Compose rows of a tag
ComposeRows(tag) == {c \in DOMAIN composes : composes[c].tag = tag}

\* the assemble calls on a tag that returned Ok, by staging id
Succeeded(tag) == {c \in DOMAIN history : history[c] = tag}

\* no assemble call is between its first step and its return
NoAssembleInFlight == \A r \in Reqs : req[r].op = "assemble" => req[r].pc = "done"

\* C11: whenever no assemble is in flight, the number of Compose rows of a tag
\* equals the number of assemble calls on that tag that returned successfully:
\* a failed assemble leaves no Compose row behind.
C11_OneRowPerSuccess ==
    NoAssembleInFlight
    => \A tag \in AsmTags : Cardinality(ComposeRows(tag)) = Cardinality(Succeeded(tag))

\* the staging directory of an assemble call
StagingOf(r) == staging_dir_name(req[r].tag, req[r].staging_id)

\* C12: within one Tag.assemble call the generator is started only after the
\* symlink of every snapshotted package has been created in the staging
\* directory, and the export path is modified (removed or re-created) only
\* after the generator has exited with success.
C12_StepOrdering ==
    [][/\ \A r \in Reqs :
            (req[r].op = "assemble" /\ req[r].pc = "populate" /\ req'[r].pc = "install")
            => \A i \in DOMAIN req[r].pkgs :
                   target_name(req[r].pkgs[i]) \in DOMAIN stagingDirs[StagingOf(r)].entries
       /\ exportLinks' # exportLinks
            => \E r \in Reqs :
                   /\ req[r].op = "assemble" /\ req'[r] # req[r]
                   /\ StagingOf(r) \in DOMAIN stagingDirs
                   /\ stagingDirs[StagingOf(r)].generated
                   /\ \A tag \in (DOMAIN exportLinks \cup DOMAIN exportLinks') \ {req[r].tag} :
                          /\ tag \in DOMAIN exportLinks /\ tag \in DOMAIN exportLinks'
                          /\ exportLinks'[tag] = exportLinks[tag]]_vars

\* a later assemble of the tag removed the export and re-created it, after its
\* generator ran on a staging directory holding both packages
C12_Witness ==
    \E r \in Reqs :
        /\ AssembleOk(r)
        /\ Cardinality(Succeeded(req[r].tag)) >= 2
        /\ stagingDirs[StagingOf(r)].generated
        /\ \A i \in DOMAIN req[r].pkgs :
               target_name(req[r].pkgs[i]) \in DOMAIN stagingDirs[StagingOf(r)].entries
        /\ Cardinality(DOMAIN req[r].pkgs) >= 2

\* C13: if Tag.assemble fails during snapshot, staging-directory creation,
\* population or because the generator exits nonzero, export_dir/<tag> is
\* exactly what it was before the call; and in every reachable state an existing
\* export symlink points at a staging directory on which the generator
\* completed successfully.
C13_ExportUnchangedOnFailure ==
    /\ \A r \in Reqs :
           (Returned(r, "assemble") /\ req[r].result = "500")
           => ExportOf(req[r].tag) = req[r].before
    /\ \A tag \in DOMAIN exportLinks :
           /\ exportLinks[tag] \in DOMAIN stagingDirs
           /\ stagingDirs[exportLinks[tag]].generated

\* an assemble failed after its staging directory was populated, while the tag
\* was exported by an earlier call: the export still is that earlier repository
C13_Witness ==
    \E r \in Reqs :
        /\ Returned(r, "assemble") /\ req[r].result = "500"
        /\ IsSome(req[r].before)
        /\ StagingOf(r) \in DOMAIN stagingDirs
        /\ ~stagingDirs[StagingOf(r)].generated
        /\ ExportOf(req[r].tag) = req[r].before
        /\ Unwrap(req[r].before) # StagingOf(r)

\* C14: once a tag has been exported by a successful assemble, a reader that
\* looks at export_dir/<tag> at any moment of any later assemble of that tag
\* finds a symlink to a generated repository (the previous one or the new one),
\* never an absent path.
C14_ExportAlwaysPresent ==
    \A tag \in AsmTags :
        Succeeded(tag) # {}
        => /\ IsSome(ExportOf(tag))
           /\ Unwrap(ExportOf(tag)) \in DOMAIN stagingDirs
           /\ stagingDirs[Unwrap(ExportOf(tag))].generated

\* the generator of an assemble call has exited with success
GeneratorSucceeded(r) ==
    StagingOf(r) \in DOMAIN stagingDirs /\ stagingDirs[StagingOf(r)].generated

\* C15: two Tag.assemble calls on the same tag that interleave use distinct
\* staging directories, each call whose generator succeeds returns
\* successfully, and when both have finished the export path is a symlink to
\* the staging directory of one of the two calls.
C15_ConcurrentAssembles ==
    \A r1, r2 \in Reqs :
        (/\ r1 # r2 /\ Returned(r1, "assemble") /\ Returned(r2, "assemble")
         /\ req[r1].tag = req[r2].tag)
        => /\ StagingOf(r1) # StagingOf(r2)
           /\ \A r \in {r1, r2} : GeneratorSucceeded(r) => req[r].result = "202"
           /\ (\E r \in {r1, r2} : GeneratorSucceeded(r))
                  => ExportOf(req[r1].tag)
                         \in {Some(StagingOf(r)) : r \in {r \in {r1, r2} : GeneratorSucceeded(r)}}

----------------------------------------------------------------------------
(* db/rpm.rs: Rpm::sign cut at its awaits, next to requests that read and  *)
(* delete packages and to fetches of the signed objects.                    *)

\* the keys of the keyring: one whose secret key loads, one whose does not
GpgKeys == {[id |-> "k", secret_key |-> "asc"], [id |-> "j", secret_key |-> "junk"]}

\* Signer::load_from_asc(&key.secret_key)
load_from_asc(secret_key) == secret_key = "asc"

\* rpm.sign(&signer); rpm.write(&mut buf): the same package, carrying a signature
Package_sign(bytes, key) ==
    [name |-> bytes.name, epoch |-> bytes.epoch, version |-> bytes.version,
     release |-> bytes.release, arch |-> bytes.arch, parses |-> bytes.parses,
     signer |-> key.id]

\* self.signed_object_key.clone().unwrap_or_else(|| rpm_object_key(..).1)
signed_key_of(self, metadata) ==
    IF IsSome(self.signed_object_key) THEN Unwrap(self.signed_object_key)
    ELSE rpm_object_key(self.id, metadata)[2]

\* Rpm { signed_object_key: Some(signed_key), ..self.clone() }
SignedEntry(self, signed_key) == [self EXCEPT !.signed_object_key = Some(signed_key)]

\* a result of put_bytes that is not looked at
PutBytesOk_Ignored(res) == TRUE

\* object_store().put_bytes(&signed_key, buf).await?
PutBytesOk(res) == res.ok

\* GET /rpm/{ulid}
get_rpm(r, id) ==
    /\ req[r].op = "idle"
    /\ req' = [req EXCEPT ![r] = [Idle EXCEPT !.op = "get_rpm", !.pc = "get", !.id = id]]
    /\ UNCHANGED <<rows, nextUlid>> /\ UnchangedStore /\ UnchangedRepo

\* rpm.sign(key) on a package that was read from the table.  The caller's
\* record keeps whether the package's object was in the backend then and no
\* sign had stored a signed object for it.
Rpm_sign(r, id, key) ==
    /\ req[r].op = "idle"
    /\ id \in DOMAIN rows
    /\ req' = [req EXCEPT ![r] = [Idle EXCEPT !.op = "sign", !.pc = "get", !.id = id,
                                              !.self = Some(rows[id]), !.gpg = Some(key),
                                              !.pre = /\ rows[id].object_key \in DOMAIN backend
                                                      /\ rpm_object_key(id, MetadataOf(rows[id]))[2]
                                                             \notin DOMAIN backend]]
    /\ UNCHANGED <<rows, nextUlid>> /\ UnchangedStore /\ UnchangedRepo

\* object_store().get(&self.object_key).await?, then load the signer, open
\* the package, sign it, write it to a buffer and pick the signed key
sign_get(r) ==
    /\ req[r].op = "sign" /\ req[r].pc = "get"
    /\ LET self == Unwrap(req[r].self)
           key == Unwrap(req[r].gpg)
           g == ObjectStorage_get(objectStoreType, World, self.object_key)
       IN  /\ SetWorld(g.w)
           /\ IF g.ok /\ load_from_asc(key.secret_key) /\ g.w.files[Unwrap(g.path)].parses
              THEN req' = [req EXCEPT ![r].data = Package_sign(g.w.files[Unwrap(g.path)], key),
                                      ![r].key = signed_key_of(self, g.w.files[Unwrap(g.path)]),
                                      ![r].pc = "put_bytes"]
              ELSE Finish(r, "err")
    /\ UNCHANGED <<rows, nextUlid>> /\ UnchangedRepo

\* object_store().put_bytes(&signed_key, buf).await?
sign_put_bytes(r) ==
    /\ req[r].op = "sign" /\ req[r].pc = "put_bytes"
    /\ LET res == ObjectStorage_put_bytes(objectStoreType, World, req[r].key, req[r].data)
       IN  /\ SetWorld(res.w)
           /\ IF PutBytesOk(res)
              THEN req' = [req EXCEPT ![r].pc = "update"]
              ELSE Finish(r, "err")
    /\ UNCHANGED <<rows, nextUlid>> /\ UnchangedRepo

\* DB.update((RPM_TABLE, id)).content(..).await?; res.ok_or_else(..)
sign_update(r) ==
    /\ req[r].op = "sign" /\ req[r].pc = "update"
    /\ LET self == Unwrap(req[r].self)
       IN  /\ rows' = UpdateContent(rows, self.id, SignedEntry(self, req[r].key))
           /\ Finish(r, IF self.id \in DOMAIN rows THEN "ok" ELSE "err")
    /\ UNCHANGED nextUlid /\ UnchangedStore /\ UnchangedRepo

\* the keys under which signed packages of the installation are stored
SignedKeys == {rpm_object_key(Ulid(n), Assembled[n][1])[2] : n \in DOMAIN Assembled}

\* the state after the ingests, on any backend, the cache warm or emptied
InitSigned ==
    /\ objectStoreType \in ObjectStoreTypes
    /\ rows = [i \in DOMAIN RowsOf(Assembled) |->
                 [RowsOf(Assembled)[i] EXCEPT !.available = i \in LatestOf(Assembled)]]
    /\ backend = IF objectStoreType = "cacheonly" THEN << >> ELSE ObjectsOf(Assembled)
    /\ \E warm \in BOOLEAN :
          /\ files = IF warm THEN ObjectsOf(Assembled) ELSE << >>
          /\ dirs = IF warm THEN DirsOf(DOMAIN ObjectsOf(Assembled)) ELSE {}
    /\ deleteWhenPrune = FALSE
    /\ tags = TagsOf(TagNames)
    /\ dependency = NoDependency
    /\ composes = << >>
    /\ stagingDirs = << >>
    /\ exportLinks = << >>
    /\ nextUlid = MaxAsmPkgs + 1
    /\ req = [r \in Reqs |-> Idle]
    /\ history = << >>

\* the first caller signs packages and fetches signed objects; another client
\* reads and deletes packages meanwhile
NextSign ==
    \/ \E id \in AsmIds, key \in GpgKeys : Rpm_sign(FirstCaller, id, key)
    \/ \E key \in SignedKeys : Object_get(FirstCaller, key)
    \/ \E id \in AsmIds : get_rpm(OtherCaller, id)
    \/ \E id \in AsmIds : delete_rpm(OtherCaller, id)
    \/ \E r \in Reqs : Rpm_get(r)
    \/ \E r \in Reqs : Rpm_delete_row(r)
    \/ \E r \in Reqs : Rpm_delete_object(r)
    \/ \E r \in Reqs : Rpm_delete_cache(r)
    \/ \E r \in Reqs : sign_get(r)
    \/ \E r \in Reqs : sign_put_bytes(r)
    \/ \E r \in Reqs : sign_update(r)
    \/ \E r \in Reqs : Return(r)

SpecSign == InitSigned /\ [][NextSign]_vars

\* C16: for a package that was ingested (its object is in the backend) and has
\* never been signed, Rpm.sign(key) with a valid key completes successfully;
\* afterwards the row's signed_object_key is its object_key with the /signed/
\* infix and an object exists under that key in the backend.  (Stated for a
\* package that nobody deleted meanwhile.)
C16_SignSucceeds ==
    \A r \in Reqs :
        (/\ Returned(r, "sign")
         /\ load_from_asc(Unwrap(req[r].gpg).secret_key)
         /\ req[r].pre
         /\ Unwrap(req[r].self).signed_object_key = None
         /\ req[r].id \in DOMAIN rows
         /\ Unwrap(req[r].self).object_key \in DOMAIN backend)
        => /\ req[r].result = "ok"
           /\ rows[req[r].id].signed_object_key
                  = Some(rpm_object_key(req[r].id, MetadataOf(Unwrap(req[r].self)))[2])
           /\ rpm_object_key(req[r].id, MetadataOf(Unwrap(req[r].self)))[2] \in DOMAIN backend

\* C17 (A-3): in every reachable state every package row whose
\* signed_object_key is set refers to a key under which an object exists in the
\* backend; a row created by ingest has it unset until a sign of that package
\* has written the signed object.
C17_A3 ==
    \A id \in DOMAIN rows :
        IsSome(rows[id].signed_object_key)
        => /\ Unwrap(rows[id].signed_object_key) \in DOMAIN backend
           /\ backend[Unwrap(rows[id].signed_object_key)]
                  \in {Package_sign(bytes, key) : bytes \in RpmFiles, key \in GpgKeys}

\* a sign returned Ok: the row carries the signed key and the backend holds a
\* signed package under it
C17_Witness ==
    \E r \in Reqs :
        /\ ReturnedOk(r, "sign")
        /\ req[r].id \in DOMAIN rows
        /\ rows[req[r].id].signed_object_key = Some(req[r].key)
        /\ req[r].key \in DOMAIN backend
        /\ backend[req[r].key] = req[r].data

----------------------------------------------------------------------------
(* Claims about ObjectStorage::put_bytes and ObjectStorage::remove *)

\* C18 as stated: put_bytes(key, bytes) stores the bytes in the backend and
\* returns the cache path of key; it fails exactly when the cache holds no entry
\* for key after the upload, and then the bytes are stored all the same,
\* whatever the backend variant.
C18_PutBytesEveryVariant ==
    \A r \in Reqs :
        Returned(r, "put_bytes")
        => /\ req[r].result = "err" <=> ~IsSome(Cache_get(World, req[r].key))
           /\ req[r].result = "ok" => req[r].path = Some(Join(cache_dir, req[r].key))
           /\ req[r].key \in DOMAIN backend
           /\ backend[req[r].key] = req[r].data

\* C18: put_bytes(key, bytes) returns the cache path of key, and fails exactly
\* when the cache holds no entry for key after the upload; failing or not, the
\* bytes are stored in the backend when it is the S3 or the local store, and
\* nothing is stored on the cache-only variant.
C18_PutBytes ==
    \A r \in Reqs :
        Returned(r, "put_bytes")
        => /\ req[r].result = "err" <=> ~IsSome(Cache_get(World, req[r].key))
           /\ req[r].result = "ok" => req[r].path = Some(Join(cache_dir, req[r].key))
           /\ IF objectStoreType = "cacheonly"
              THEN req[r].key \notin DOMAIN backend
              ELSE /\ req[r].key \in DOMAIN backend
                   /\ backend[req[r].key] = req[r].data

\* a put_bytes failed for want of a cache entry and its bytes are in the backend
C18_Witness ==
    \E r \in Reqs :
        /\ Returned(r, "put_bytes") /\ req[r].result = "err"
        /\ objectStoreType # "cacheonly"
        /\ ~IsSome(Cache_get(World, req[r].key))
        /\ req[r].key \in DOMAIN backend
        /\ backend[req[r].key] = req[r].data

\* C19: ObjectStorage.remove(key) deletes from the backend first and from the
\* cache second: if backend.delete_object(key) fails, remove returns an error
\* and no cache entry has changed; if it succeeds and the key is cached,
\* afterwards the key is in neither the backend nor the cache.
C19_RemoveBackendFirst ==
    [][\A r \in Reqs :
          (req[r].op = "idle" /\ req'[r].op = "remove")
          => IF ~Backend_delete_object(objectStoreType, World, req'[r].key).ok
             THEN /\ req'[r].result = "err"
                  /\ files' = files /\ dirs' = dirs
             ELSE IsSome(Cache_get(World, req'[r].key))
                  => /\ req'[r].result = "ok"
                     /\ req'[r].key \notin DOMAIN backend'
                     /\ Join(cache_dir, req'[r].key) \notin DOMAIN files']_vars

\* a remove of a key that was cached and stored returned Ok and left it in
\* neither place
C19_Witness ==
    \E r \in Reqs :
        /\ ReturnedOk(r, "remove") /\ req[r].pre
        /\ objectStoreType # "cacheonly"
        /\ req[r].key \notin DOMAIN backend
        /\ ~IsSome(Cache_get(World, req[r].key))

\* C20: after DELETE /rpm/<id> on an existing package succeeds, the row is
\* gone and its object_key is absent from the backend; a GET /rpm/<id> that
\* names an absent package is answered with 404.
C20_DeleteThenNotFound ==
    /\ \A r \in Reqs :
           (Returned(r, "delete") /\ req[r].result = "200")
           => /\ req[r].id \notin DOMAIN rows
              /\ Unwrap(req[r].self).object_key \notin DOMAIN backend
    /\ \A r \in Reqs :
           (Returned(r, "get_rpm") /\ req[r].self = None)
           => req[r].result = "404"

----------------------------------------------------------------------------
(* Tags: POST /repo, POST /repo/{id}/key, DELETE /repo/{id} *)

\* errors.rs: the status of the response made from an Error: the variant's
\* status_code attribute; a variant that carries none (Db, Other, Io and Tag)
\* gets the status of an internal error
Error_status(variant) == IF variant = "NotFound" THEN "404" ELSE "500"

\* POST /repo with { name }
create_tag(r, name) ==
    /\ req[r].op = "idle"
    /\ req' = [req EXCEPT ![r] = [Idle EXCEPT !.op = "create_tag", !.pc = "get", !.tag = name]]
    /\ UNCHANGED <<rows, nextUlid>> /\ UnchangedStore /\ UnchangedRepo

\* let existing_tag = Tag::get(&tag.name).await?;
\* if existing_tag.is_some() { return Err(TagError::AlreadyExists.into()) }
\* let tag = Tag::new(tag.name.clone())
create_tag_get(r) ==
    /\ req[r].op = "create_tag" /\ req[r].pc = "get"
    /\ IF req[r].tag \in DOMAIN tags
       THEN Finish(r, Error_status("Tag"))
       ELSE req' = [req EXCEPT ![r].self = Some(Tag_new(req[r].tag)), ![r].pc = "save"]
    /\ UNCHANGED <<rows, nextUlid>> /\ UnchangedStore /\ UnchangedRepo

\* POST /repo/{id}/key with { key_id }
set_gpg_key(r, name, key_id) ==
    /\ req[r].op = "idle"
    /\ req' = [req EXCEPT ![r] = [Idle EXCEPT !.op = "set_gpg_key", !.pc = "get", !.tag = name,
                                              !.key = key_id]]
    /\ UNCHANGED <<rows, nextUlid>> /\ UnchangedStore /\ UnchangedRepo

\* let mut tag = Tag::get(&tag_id).await?.ok_or_else(|| TagError::NotFound)?;
\* tag.set_gpg_key(&key)
set_gpg_key_get(r) ==
    /\ req[r].op = "set_gpg_key" /\ req[r].pc = "get"
    /\ IF req[r].tag \in DOMAIN tags
       THEN req' = [req EXCEPT ![r].self = Some([tags[req[r].tag] EXCEPT
                                                    !.signing_key = Some(req[r].key)]),
                               ![r].pc = "save"]
       ELSE Finish(r, Error_status("Tag"))
    /\ UNCHANGED <<rows, nextUlid>> /\ UnchangedStore /\ UnchangedRepo

\* Tag::save: DB.upsert((TAG_TABLE, id)).content(self.clone()); create_tag answers
\* with StatusCode::CREATED, set_gpg_key with the tag
Tag_save(r) ==
    /\ req[r].op \in {"create_tag", "set_gpg_key"} /\ req[r].pc = "save"
    /\ tags' = Put(tags, Unwrap(req[r].self).id, Unwrap(req[r].self))
    /\ Finish(r, IF req[r].op = "create_tag" THEN "201" ELSE "200")
    /\ UNCHANGED <<rows, nextUlid, composes, stagingDirs, exportLinks, dependency, history>>
    /\ UnchangedStore

\* DELETE /repo/{id}
delete_tag(r, name) ==
    /\ req[r].op = "idle"
    /\ req' = [req EXCEPT ![r] = [Idle EXCEPT !.op = "delete_tag", !.pc = "get", !.tag = name]]
    /\ UNCHANGED <<rows, nextUlid>> /\ UnchangedStore /\ UnchangedRepo

\* let tag = Tag::get(&tag_id).await?.ok_or_else(|| Error::NotFound)?
delete_tag_get(r) ==
    /\ req[r].op = "delete_tag" /\ req[r].pc = "get"
    /\ IF req[r].tag \in DOMAIN tags
       THEN req' = [req EXCEPT ![r].self = Some(tags[req[r].tag]), ![r].pc = "delete"]
       ELSE Finish(r, Error_status("NotFound"))
    /\ UNCHANGED <<rows, nextUlid>> /\ UnchangedStore /\ UnchangedRepo

\* a delete that would take the package rows of the tag with it
Tag_delete_Cascade(r) ==
    /\ req[r].op = "delete_tag" /\ req[r].pc = "delete"
    /\ tags' = Drop(tags, Unwrap(req[r].self).id)
    /\ rows' = [i \in {j \in DOMAIN rows : rows[j].tag # Unwrap(req[r].self).id} |-> rows[i]]
    /\ Finish(r, "204")
    /\ UNCHANGED <<nextUlid, composes, stagingDirs, exportLinks, dependency, history>>
    /\ UnchangedStore

\* Tag::delete: DB.delete((TAG_TABLE, id)); the handler answers NO_CONTENT
Tag_delete(r) ==
    /\ req[r].op = "delete_tag" /\ req[r].pc = "delete"
    /\ tags' = Drop(tags, Unwrap(req[r].self).id)
    /\ Finish(r, "204")
    /\ UNCHANGED <<rows, nextUlid, composes, stagingDirs, exportLinks, dependency, history>>
    /\ UnchangedStore

\* the state after the ingests into tag t; tag u has not been created
InitTagged ==
    /\ objectStoreType = "s3"
    /\ rows = [i \in DOMAIN RowsOf(Assembled) |->
                 [RowsOf(Assembled)[i] EXCEPT !.available = i \in LatestOf(Assembled)]]
    /\ backend = ObjectsOf(Assembled)
    /\ files = ObjectsOf(Assembled)
    /\ dirs = DirsOf(DOMAIN ObjectsOf(Assembled))
    /\ deleteWhenPrune = FALSE
    /\ tags = TagsOf(AsmTags)
    /\ dependency = NoDependency
    /\ composes = << >>
    /\ stagingDirs = << >>
    /\ exportLinks = << >>
    /\ nextUlid = MaxAsmPkgs + 1
    /\ req = [r \in Reqs |-> Idle]
    /\ history = << >>

\* the first caller assembles tags; another client creates tags, sets their
\* keys and deletes them meanwhile
NextTag ==
    \/ \E tag \in AsmTags : assemble_tag(FirstCaller, tag)
    \/ \E name \in TagNames : create_tag(OtherCaller, name)
    \/ \E name \in TagNames, key \in GpgKeys : set_gpg_key(OtherCaller, name, key.id)
    \/ \E name \in TagNames : delete_tag(OtherCaller, name)
    \/ \E r \in Reqs : create_tag_get(r)
    \/ \E r \in Reqs : set_gpg_key_get(r)
    \/ \E r \in Reqs : Tag_save(r)
    \/ \E r \in Reqs : delete_tag_get(r)
    \/ \E r \in Reqs : Tag_delete(r)
    \/ \E r \in Reqs : assemble_snapshot(r)
    \/ \E r \in Reqs : assemble_compose(r)
    \/ \E r \in Reqs : assemble_create_staging(r)
    \/ \E r \in Reqs, p \in AsmIds : assemble_symlink(r, p)
    \/ \E r \in Reqs, success \in BOOLEAN : assemble_createrepo(r, success)
    \/ \E r \in Reqs : assemble_export_exists(r)
    \/ \E r \in Reqs : assemble_remove_export(r)
    \/ \E r \in Reqs : assemble_symlink_export(r)
    \/ \E r \in Reqs : Return(r)

SpecTag == InitTagged /\ [][NextTag]_vars

\* two clients create tags and set their keys at the same time
NextTagRace ==
    \/ \E r \in {FirstCaller, OtherCaller}, name \in TagNames : create_tag(r, name)
    \/ \E r \in {FirstCaller, OtherCaller}, name \in TagNames, key \in GpgKeys :
          set_gpg_key(r, name, key.id)
    \/ \E r \in Reqs : create_tag_get(r)
    \/ \E r \in Reqs : set_gpg_key_get(r)
    \/ \E r \in Reqs : Tag_save(r)
    \/ \E r \in Reqs : Return(r)

SpecTagRace == InitTagged /\ [][NextTagRace]_vars

(* cache.rs called directly, one call at a time *)

\* Cache::put(key, path); copies tells whether the file system lets the copy
\* through.  The caller's record keeps the source path.
Call_Cache_put(r, key, path, copies, opened) ==
    /\ Quiet
    /\ LET res == IF copies THEN Cache_put(World, key, path)
                  ELSE Cache_put_CopyFails(World, key, path, opened)
       IN  /\ SetWorld(res.w)
           /\ req' = [req EXCEPT ![r] = [CalledRecord("cache_put", key, res)
                                             EXCEPT !.filename = path]]
    /\ UNCHANGED <<rows, nextUlid>> /\ UnchangedRepo

\* Cache::get(key)
Call_Cache_get(r, key) ==
    /\ Quiet
    /\ Called(r, "cache_get", key, [ok |-> TRUE, path |-> Cache_get(World, key)])
    /\ UNCHANGED <<rows, nextUlid>> /\ UnchangedStore /\ UnchangedRepo

\* a cache that holds some of the keys, no file staged yet
InitCache ==
    /\ objectStoreType = "s3"
    /\ deleteWhenPrune = FALSE
    /\ backend = << >>
    /\ \E cached \in SUBSET StoreKeys :
          /\ files = [p \in {Join(cache_dir, k) : k \in cached} |-> StoredBytes]
          /\ dirs = DirsOf({Join(cache_dir, k) : k \in cached})
    /\ rows = << >>
    /\ tags = << >>
    /\ dependency = NoDependency
    /\ composes = << >>
    /\ stagingDirs = << >>
    /\ exportLinks = << >>
    /\ nextUlid = 1
    /\ req = [r \in Reqs |-> Idle]
    /\ history = << >>

NextCache ==
    \/ \E p \in SourcePaths, b \in StoreBytes : write_source(p, b)
    \/ \E k \in StoreKeys, p \in SourcePaths, copies, opened \in BOOLEAN :
          Call_Cache_put(FirstCaller, k, p, copies, opened)
    \/ \E k \in StoreKeys : Call_Cache_get(FirstCaller, k)
    \/ \E k \in StoreKeys : Call_Cache_remove(FirstCaller, k)
    \/ Return(FirstCaller)

SpecCache == InitCache /\ [][NextCache]_vars

(* rpm.rs: From<&rpm::Dependency> for PkgDependency *)

\* the macro call with triggerin and triggerun exchanged
convert_depflags_Swapped ==
    <<"scriptpre", "scriptpost", "scriptpreun", "scriptpostun", "scriptverify",
      "findrequires", "findprovides", "triggerun", "triggerin", "triggerpostun",
      "missingok", "preuntrans", "postuntrans">>

\* convert_depflags![..]: the flags looked for, in the order of the macro call,
\* each with its lower-case name
convert_depflags ==
    <<"scriptpre", "scriptpost", "scriptpreun", "scriptpostun", "scriptverify",
      "findrequires", "findprovides", "triggerin", "triggerun", "triggerpostun",
      "missingok", "preuntrans", "postuntrans">>

\* rpm::DependencyFlags as the set of the bits that are set: the thirteen above
\* and a sense bit the conversion does not look for
DependencyFlagBits == {convert_depflags[i] : i \in DOMAIN convert_depflags} \cup {"less"}

\* the version strings of a dependency
DependencyVersions == {"", "1.0"}

Dependencies == [flags : SUBSET DependencyFlagBits, name : {"n"}, version : DependencyVersions]

\* .iter().find(|(f, _)| flags.contains(*f)).map(|(_, name)| name.to_string());
\* version None for an empty string
PkgDependency_from(dep) ==
    LET found == {i \in DOMAIN convert_depflags : convert_depflags[i] \in dep.flags}
    IN  [flag |-> IF found = {} THEN None
                  ELSE Some(convert_depflags[CHOOSE i \in found : \A j \in found : i <= j]),
         name |-> dep.name,
         version |-> IF dep.version = "" THEN None ELSE Some(dep.version)]

\* dep.into()
Dependency_into ==
    /\ IsSome(dependency.dep) /\ dependency.pkg = None
    /\ dependency' = [dependency EXCEPT !.pkg = Some(PkgDependency_from(Unwrap(dependency.dep)))]
    /\ UNCHANGED <<rows, nextUlid, req, tags, composes, stagingDirs, exportLinks, history>>
    /\ UnchangedStore

\* any dependency of a package file
InitDependency ==
    /\ objectStoreType = "s3"
    /\ deleteWhenPrune = FALSE
    /\ backend = << >>
    /\ files = << >>
    /\ dirs = {}
    /\ rows = << >>
    /\ tags = << >>
    /\ \E dep \in Dependencies : dependency = [dep |-> Some(dep), pkg |-> None]
    /\ composes = << >>
    /\ stagingDirs = << >>
    /\ exportLinks = << >>
    /\ nextUlid = 1
    /\ req = [r \in Reqs |-> Idle]
    /\ history = << >>

NextDependency == Dependency_into

SpecDependency == InitDependency /\ [][NextDependency]_vars

(* DELETE /rpm/{id}/available under either setting of delete_when_prune *)

\* the state after the ingests and after signs of some of the packages, the
\* server started with either setting
InitPrune ==
    /\ objectStoreType = "s3"
    /\ deleteWhenPrune \in BOOLEAN
    /\ \E signed \in SUBSET AsmIds :
          LET signed_key(i) == rpm_object_key(i, MetadataOf(RowsOf(Assembled)[i]))[2]
              bytes(i) == Assembled[CHOOSE n \in DOMAIN Assembled : Ulid(n) = i][1]
              key == CHOOSE k \in GpgKeys : load_from_asc(k.secret_key)
          IN  /\ rows = [i \in DOMAIN RowsOf(Assembled) |->
                           [RowsOf(Assembled)[i] EXCEPT
                               !.available = i \in LatestOf(Assembled),
                               !.signed_object_key =
                                   IF i \in signed THEN Some(signed_key(i)) ELSE None]]
              /\ backend = [k \in {signed_key(i) : i \in signed} |->
                               Package_sign(bytes(CHOOSE i \in signed : signed_key(i) = k), key)]
                               @@ ObjectsOf(Assembled)
    /\ \E warm \in BOOLEAN :
          /\ files = IF warm THEN ObjectsOf(Assembled) ELSE << >>
          /\ dirs = IF warm THEN DirsOf(DOMAIN ObjectsOf(Assembled)) ELSE {}
    /\ tags = TagsOf(TagNames)
    /\ dependency = NoDependency
    /\ composes = << >>
    /\ stagingDirs = << >>
    /\ exportLinks = << >>
    /\ nextUlid = MaxAsmPkgs + 1
    /\ req = [r \in Reqs |-> Idle]
    /\ history = << >>

\* two clients mark packages unavailable
NextPrune ==
    \/ \E r \in {FirstCaller, OtherCaller}, id \in AsmIds : mark_rpm_unavailable(r, id)
    \/ \E r \in Reqs : Rpm_get(r)
    \/ \E r \in Reqs : mark_unavailable(r)
    \/ \E r \in Reqs : Return(r)

SpecPrune == InitPrune /\ [][NextPrune]_vars

(* Ingests and deletes of packages by clients that do not wait for each other *)

\* what the ingesting client sends: one of two packages, or bytes that are no RPM
IngestUploads == {<<Rpm_a1x, "t">>, <<Rpm_b1x, "t">>, <<Garbage, "t">>}

NextIngest ==
    \/ \E f \in Filenames, u \in IngestUploads : upload_rpm(FirstCaller, f, u[1], u[2], TRUE)
    \/ \E id \in IdArgs : delete_rpm(OtherCaller, id)
    \/ \E r \in Reqs : Rpm_get(r)
    \/ \E r \in Reqs : upload_write(r)
    \/ \E r \in Reqs : upload_parse(r)
    \/ \E r \in Reqs : upload_put_file(r)
    \/ \E r \in Reqs : upload_cache_put(r)
    \/ \E r \in Reqs : commit_to_db(r, upload_commit_latest)
    \/ \E r \in Reqs : mark_available_txn(r)
    \/ \E r \in Reqs : mark_available_update(r)
    \/ \E r \in Reqs : Rpm_delete_row(r)
    \/ \E r \in Reqs : Rpm_delete_object(r)
    \/ \E r \in Reqs : Rpm_delete_cache(r)
    \/ \E r \in Reqs : Return(r)

SpecIngest == InitEmpty /\ [][NextIngest]_vars

(* Rpm::sign while the package is marked available or unavailable *)

\* the state after the ingests, on the S3 backend
InitSignMark == InitSigned /\ objectStoreType = "s3"

\* the first caller signs packages and fetches signed objects; another client
\* marks packages available and unavailable meanwhile
NextSignMark ==
    \/ \E id \in AsmIds, key \in GpgKeys : Rpm_sign(FirstCaller, id, key)
    \/ \E key \in SignedKeys : Object_get(FirstCaller, key)
    \/ \E id \in AsmIds : mark_rpm_available(OtherCaller, id)
    \/ \E id \in AsmIds : mark_rpm_unavailable(OtherCaller, id)
    \/ \E r \in Reqs : Rpm_get(r)
    \/ \E r \in Reqs : mark_available_txn(r)
    \/ \E r \in Reqs : mark_available_update(r)
    \/ \E r \in Reqs : mark_unavailable(r)
    \/ \E r \in Reqs : sign_get(r)
    \/ \E r \in Reqs : sign_put_bytes(r)
    \/ \E r \in Reqs : sign_update(r)
    \/ \E r \in Reqs : Return(r)

SpecSignMark == InitSignMark /\ [][NextSignMark]_vars

(* Claims about deletes, tags and the unavailable mark *)

\* C21: Rpm::delete tolerates a failure to remove the object: once the row has
\* been deleted the row stays deleted and the call does not surface the
\* failure to its caller.
C21_DeleteToleratesBackendFailure ==
    \A r \in Reqs :
        (Returned(r, "delete") /\ IsSome(req[r].self))
        => /\ req[r].id \notin DOMAIN rows
           /\ req[r].result = "200"

\* C22: POST /repo for a name with no existing tag creates the tag and returns
\* 201; POST /repo for a name whose tag already exists returns 409 and leaves
\* the existing tag row (its signing_key and comps_xml too) unchanged.
C22_TagCreationConflict ==
    [][\A r \in Reqs :
          /\ (req[r].op = "create_tag" /\ req[r].pc = "save" /\ req'[r].pc = "done")
             => /\ req'[r].result = "201"
                /\ req[r].tag \in DOMAIN tags'
          /\ (req[r].op = "create_tag" /\ req[r].pc = "get" /\ req'[r].pc = "done")
             => /\ req[r].tag \in DOMAIN tags
                /\ req'[r].result = "409"
                /\ tags' = tags]_vars

\* C23: deleting a tag does not cascade: the steps of DELETE /repo/{id} remove
\* at most the row of that tag; the package rows (those of the tag and their
\* available flags too), the stored objects, the Compose rows, the staging
\* directories and the export path of the tag stay as they are.
C23_TagDeleteNoCascade ==
    [][\A r \in Reqs :
          (req[r].op = "delete_tag" /\ req'[r] # req[r])
          => /\ UNCHANGED <<rows, backend, files, dirs, composes, stagingDirs, exportLinks>>
             /\ tags' \in {tags, Drop(tags, req[r].tag)}]_vars

\* a tag with package rows, a Compose row and an export has been deleted
C23_Witness ==
    \E r \in Reqs :
        /\ Returned(r, "delete_tag") /\ req[r].result = "204"
        /\ req[r].tag \notin DOMAIN tags
        /\ \E i \in DOMAIN rows : rows[i].tag = req[r].tag /\ rows[i].available
        /\ \E c \in DOMAIN composes : composes[c].tag = req[r].tag
        /\ req[r].tag \in DOMAIN exportLinks

\* C24: with delete_when_prune set, marking a package unavailable also deletes
\* the package, its row and its object; with the option unset it only clears
\* the available flag.
C24_DeleteWhenPrune ==
    \A r \in Reqs :
        (Returned(r, "mark_unavailable") /\ req[r].result = "200")
        => LET self == Unwrap(req[r].self)
           IN  IF deleteWhenPrune
               THEN /\ self.id \notin DOMAIN rows
                    /\ self.object_key \notin DOMAIN backend
               ELSE /\ self.id \in DOMAIN rows
                    /\ rows[self.id] = [self EXCEPT !.available = FALSE]
                    /\ self.object_key \in DOMAIN backend

\* C25: an ingest aborts on error.  When the uploaded file does not parse as an
\* RPM the request is answered with 400, no package row is created, nothing is
\* stored in the backend or under a cache key, and the staging file written
\* first is still on disk; when object_store.put fails no package row is
\* created.
C25_IngestAbortsOnError ==
    [][\A r \in Reqs :
          /\ (req[r].op = "upload" /\ req[r].pc = "write" /\ req'[r] # req[r])
             => /\ UNCHANGED <<rows, backend>>
                /\ \A k \in DOMAIN files' \ {Unwrap(req'[r].path)} :
                       k \in DOMAIN files /\ files'[k] = files[k]
          /\ (req[r].op = "upload" /\ req[r].pc = "parse" /\ req'[r].pc = "done")
             => /\ req'[r].result = "400"
                /\ UNCHANGED <<rows, backend, files, dirs>>
                /\ Unwrap(req[r].path) \in DOMAIN files
          /\ (req[r].op = "upload" /\ req[r].pc \in {"put_file", "cache_put"}
                 /\ req'[r].pc = "done")
             => /\ rows' = rows
                /\ Unwrap(req[r].self).id \notin DOMAIN rows]_vars

\* C26: for every combination of the thirteen dependency flag bits the flag of
\* the converted dependency is the name of the first set bit in the listed
\* order, and none when no listed bit is set; its version is absent exactly
\* when the version string of the input is empty.
C26_DependencyFlagMapping ==
    IsSome(dependency.pkg)
    => LET CanonicalOrder ==
               <<"scriptpre", "scriptpost", "scriptpreun", "scriptpostun", "scriptverify",
                 "findrequires", "findprovides", "triggerin", "triggerun", "triggerpostun",
                 "missingok", "preuntrans", "postuntrans">>
           dep == Unwrap(dependency.dep)
           pkg == Unwrap(dependency.pkg)
           listed == {i \in DOMAIN CanonicalOrder : CanonicalOrder[i] \in dep.flags}
       IN  /\ listed = {} <=> pkg.flag = None
           /\ listed # {} =>
                 \E i \in listed : /\ pkg.flag = Some(CanonicalOrder[i])
                                   /\ \A j \in listed : i <= j
           /\ pkg.version = None <=> dep.version = ""
           /\ dep.version # "" => pkg.version = Some(dep.version)

\* a dependency with a later and an earlier listed bit, an unlisted bit and a
\* version has been converted
C26_Witness ==
    /\ IsSome(dependency.pkg)
    /\ {"triggerun", "triggerin", "postuntrans", "less"} \subseteq Unwrap(dependency.dep).flags
    /\ "scriptpre" \notin Unwrap(dependency.dep).flags
    /\ Unwrap(dependency.pkg).flag = Some("triggerin")
    /\ IsSome(Unwrap(dependency.pkg).version)

\* C27 (A-2): a package created from metadata has the object_key
\* rpm/<id[0]>/<id[1]>/<id>/<name>-<epoch>:<version>-<release>.<arch>.rpm, with
\* name, version, release and arch copied from the metadata and the epoch 0
\* when the metadata has none; in every reachable state no two package rows
\* have the same object_key, two packages ingested from the same file too.
C27_A2 ==
    /\ \A i \in DOMAIN rows :
          rows[i].object_key =
              "rpm/" \o Char(i, 1) \o "/" \o Char(i, 2) \o "/" \o i \o "/"
                     \o rows[i].name \o "-" \o Decimal(rows[i].epoch) \o ":"
                     \o rows[i].version \o "-" \o rows[i].release \o "."
                     \o rows[i].arch \o ".rpm"
    /\ \A r \in Reqs :
          (req[r].op = "upload" /\ IsSome(req[r].self))
          => LET pkg == Unwrap(req[r].self)
                 meta == req[r].data
             IN  /\ pkg.name = meta.name /\ pkg.version = meta.version
                 /\ pkg.release = meta.release /\ pkg.arch = meta.arch
                 /\ pkg.epoch = IF meta.epoch = None THEN 0 ELSE meta.epoch[1]
    /\ \A i, j \in DOMAIN rows : i # j => rows[i].object_key # rows[j].object_key

\* two packages ingested from the same file, which has no epoch, and a package
\* whose file has one
C27_Witness ==
    /\ \E i, j \in DOMAIN rows :
          /\ i # j
          /\ [rows[i] EXCEPT !.id = "", !.object_key = "", !.available = FALSE]
                 = [rows[j] EXCEPT !.id = "", !.object_key = "", !.available = FALSE]
          /\ rows[i].epoch = 0
    /\ \E k \in DOMAIN rows : rows[k].epoch # 0
    /\ \E r \in Reqs : req[r].op = "upload" /\ IsSome(req[r].self) /\ req[r].data.epoch = None

\* C28: Cache.put(key, src) consumes its source: after a successful put
\* Cache.get(key) returns cache_dir/key, which holds the content src had, src
\* no longer exists and the cache entries of all other keys are unchanged; if
\* the copy fails, src still exists.
C28_CachePutConsumesSource ==
    [][\A r \in Reqs :
          (req[r].op = "idle" /\ req'[r].op = "cache_put")
          => LET key == req'[r].key
                 src == req'[r].filename
                 dest == Join(cache_dir, key)
             IN  /\ req'[r].result = "ok"
                    => /\ Cache_get(World', key) = Some(dest)
                       /\ dest \in DOMAIN files' /\ files'[dest] = files[src]
                       /\ src \notin DOMAIN files'
                       /\ \A k \in StoreKeys \ {key} :
                             /\ Cache_get(World', k) = Cache_get(World, k)
                             /\ Join(cache_dir, k) \in DOMAIN files
                                => files'[Join(cache_dir, k)] = files[Join(cache_dir, k)]
                 /\ (req'[r].result = "err" /\ src \in DOMAIN files)
                    => src \in DOMAIN files' /\ files'[src] = files[src]]_vars

\* a put into a cache that holds another key has consumed its source
C28_Witness ==
    \E r \in Reqs :
        /\ Returned(r, "cache_put") /\ req[r].result = "ok"
        /\ Join(cache_dir, req[r].key) \in DOMAIN files
        /\ files[Join(cache_dir, req[r].key)] = Rpm_b1x
        /\ req[r].filename \notin DOMAIN files
        /\ \E k \in StoreKeys \ {req[r].key} : IsSome(Cache_get(World, k))

----------------------------------------------------------------------------
(* Claims about interleaved calls *)

\* C31: Rpm::sign never changes availability: whatever mark_available and
\* mark_unavailable calls run alongside a sign, no step of the sign changes the
\* available flag of any package, so the flags are those the marks alone
\* produce.
C31_SignKeepsAvailability ==
    [][\A r \in Reqs :
          (req[r].op = "sign" /\ req'[r] # req[r])
          => /\ DOMAIN rows' = DOMAIN rows
             /\ \A i \in DOMAIN rows : rows'[i].available = rows[i].available]_vars

\* C32: signed_object_key is never lost: once a sign has set it in the row of a
\* package, no step of a mark_available or mark_unavailable call, one that read
\* its copy of the package before the sign finished too, resets it to unset.
C32_SignedKeyNeverLost ==
    [][\A r \in Reqs :
          (req[r].op \in {"mark_available", "mark_unavailable"} /\ req'[r] # req[r])
          => \A i \in DOMAIN rows :
                IsSome(rows[i].signed_object_key)
                => i \in DOMAIN rows' /\ rows'[i].signed_object_key = rows[i].signed_object_key]_vars

\* C33 as stated: in every state reached by interleaved ingests and deletes,
\* every package row has an object in the backend under its object_key,
\* whatever the backend variant.
C33_RowHasObjectEveryVariant ==
    \A i \in DOMAIN rows : rows[i].object_key \in DOMAIN backend

\* C33: in every state reached by interleaved ingests and deletes, every
\* package row has an object under its object_key: in the backend on the S3
\* and the local store, in the cache on the cache-only variant, whose put
\* stores nothing.
C33_RowHasObject ==
    \A i \in DOMAIN rows :
        IF objectStoreType = "cacheonly"
        THEN IsSome(Cache_get(World, rows[i].object_key))
        ELSE rows[i].object_key \in DOMAIN backend

\* a package has been ingested while the delete of another one, whose row is
\* gone, has not removed the object yet
C33_Witness ==
    /\ objectStoreType # "cacheonly"
    /\ rows # << >>
    /\ \E r \in Reqs :
          /\ req[r].op = "delete" /\ req[r].pc = "delete_object"
          /\ Unwrap(req[r].self).object_key \in DOMAIN backend
    /\ \E q \in Reqs : req[q].op = "upload" /\ req[q].pc = "txn"

\* C34: two callers that ran get(k1) and get(k2) at the same time, for two
\* different keys of the backend with the same last path component and neither
\* of them cached, both return Ok, and the cache file of each key holds the
\* backend's content of that key.
C34_CacheContentIntegrity ==
    \A r1, r2 \in Reqs :
        (/\ r1 # r2 /\ Returned(r1, "get") /\ Returned(r2, "get")
         /\ req[r1].key # req[r2].key
         /\ file_name(req[r1].key) = file_name(req[r2].key)
         /\ req[r1].key \in DOMAIN backend /\ req[r2].key \in DOMAIN backend
         /\ ~req[r1].pre /\ ~req[r2].pre)
        => \A r \in {r1, r2} :
              /\ req[r].result = "ok"
              /\ Join(cache_dir, req[r].key) \in DOMAIN files
              /\ files[Join(cache_dir, req[r].key)] = backend[req[r].key]

\* C35: once a remove(k) that deleted k from the backend and a get(k) that ran
\* beside it have both finished, k is not in the cache.
C35_RemovedStaysRemoved ==
    \A r1, r2 \in Reqs :
        (/\ Returned(r1, "remove") /\ req[r1].pre = TRUE
         /\ Returned(r2, "get") /\ req[r2].key = req[r1].key
         /\ req[r1].key \notin DOMAIN backend)
        => Cache_get(World, req[r1].key) = None

\* C36: in every state where export_dir/<tag> has been installed by a
\* successful assemble, every package symlink inside the directory it points
\* to resolves to an existing file, also after packages of that export were
\* deleted or marked unavailable.
C36_ExportStaysResolvable ==
    \A tag \in DOMAIN exportLinks :
        /\ exportLinks[tag] \in DOMAIN stagingDirs
        /\ \A e \in DOMAIN stagingDirs[exportLinks[tag]].entries :
              stagingDirs[exportLinks[tag]].entries[e] \in DOMAIN files

\* C37: of two POST /repo calls for one name that ran at the same time at most
\* one has answered 201, and the save of a create whose tag row exists by then
\* leaves the table as it is and does not answer 201, so that a signing_key
\* set between the check and the save is kept.
C37_CreateIfAbsent ==
    /\ [](\A r1, r2 \in Reqs :
              (/\ r1 # r2 /\ Returned(r1, "create_tag") /\ Returned(r2, "create_tag")
               /\ req[r1].tag = req[r2].tag)
              => ~(req[r1].result = "201" /\ req[r2].result = "201"))
    /\ [][\A r \in Reqs :
             (/\ req[r].op = "create_tag" /\ req[r].pc = "save" /\ req'[r].pc = "done"
              /\ req[r].tag \in DOMAIN tags)
             => tags' = tags /\ req'[r].result # "201"]_vars

\* C38: when ObjectStorage.put_bytes(k, b) has returned Ok, the file at the
\* returned path holds b, and a get(k) that follows returns a file that holds
\* b, also when the cache held an older object for k.
C38_PutBytesVisible ==
    \A r \in Reqs :
        ReturnedOk(r, "put_bytes")
        => LET g == ObjectStorage_get(objectStoreType, World, req[r].key)
           IN  /\ Unwrap(req[r].path) \in DOMAIN files
               /\ files[Unwrap(req[r].path)] = req[r].data
               /\ g.ok
               /\ g.w.files[Unwrap(g.path)] = req[r].data
====
